---- MODULE Spec2Model ----
(***************************************************************************)
(* Verification model of four parts of the provider:                       *)
(*   - the storage-account lookup cache (package client),                  *)
(*   - the Service Bus subscription / authorization rule handlers,          *)
(*   - the azurerm_linux_function_app_on_container resource,                *)
(*   - the azurerm_kubernetes_cluster data source.                          *)
(* Each part has its own specification over its own variables; the         *)
(* variables of the other parts stay at their initial value.               *)
(***************************************************************************)
EXTENDS Integers, Sequences, FiniteSets, TLC

\* ------------------------------------------------------------------------
\* Bounds of the model
\* ------------------------------------------------------------------------

\* How many times Update of the function app is run.
MaxUpdates == 1

\* Longest account listing the remote List call returns (over all pages).
MaxAccounts == 2

\* ------------------------------------------------------------------------
\* Storage-account cache: values
\* ------------------------------------------------------------------------

\* Goroutines that call into the cache concurrently.
Procs == {"p1", "p2"}

\* Storage account names.
Names == {"a", "b"}

\* Account keys the remote ListKeys call can return.
Keys == {"k1", "k2"}

\* accountDetails.accountKey == nil
NoKey == "nokey"

\* storage.Account.Name == nil
NoName == "noname"

\* No goroutine holds the lock.
Free == "free"

\* A resource ID is its sequence of path segments; props.ID == nil is the
\* record with isNil set.
NilId == [isNil |-> TRUE, segs |-> <<>>]

BadId == [isNil |-> FALSE, segs |-> <<"not", "an", "id">>]

GoodId(n) ==
    [isNil |-> FALSE,
     segs |-> <<"subscriptions", "sub1", "resourceGroups", "rg1", "providers",
                "Microsoft.Storage", "storageAccounts", n>>]

\* The storage.Account values the remote side hands out for a name.
AccountsNamed(n) == {[name |-> n, id |-> i] : i \in {GoodId(n), NilId, BadId}}

ListedAccounts ==
    UNION {AccountsNamed(n) : n \in Names} \cup {[name |-> NoName, id |-> NilId]}

\* Sequences over S of length at most n.
SeqUpTo(S, n) == UNION {[1..k -> S] : k \in 0..n}

\* No accountDetails value (a nil pointer, or no entry in the map).
NoDetails == [name |-> NoName, id |-> NilId, rg |-> "", key |-> NoKey]

\* ------------------------------------------------------------------------
\* Storage-account cache: state
\* ------------------------------------------------------------------------

VARIABLES
    storageAccountsCache,   \* Names -> accountDetails, NoDetails when absent
    accountsLock,           \* holder of accountsLock, or Free
    credentialsLock,        \* holder of credentialsLock, or Free
    fatal,                  \* the runtime stopped the program on a racy map access
    pc,                     \* Procs -> position of the goroutine
    arg,                    \* Procs -> the arguments of the call in progress
    accounts,               \* Procs -> FindAccount's local slice `accounts`
    idx,                    \* Procs -> position of FindAccount's range loop
    held,                   \* Procs -> the *accountDetails the caller holds
    ret,                    \* what the last call returned, until the next call
    cacheBefore             \* the cache as the running FindAccount found it

cacheVars ==
    <<storageAccountsCache, accountsLock, credentialsLock, fatal, pc, arg,
      accounts, idx, held, ret, cacheBefore>>

\* The Service Bus handlers' state.
VARIABLES
    sbKind,       \* which of the three resources the handlers belong to
    sbBeta,       \* features.ThreePointOhBeta()
    sbCfg,        \* the configuration of the resource
    d,            \* the ResourceData: id, isNew, st (the attributes in state)
    resourceId,   \* the handler's local resourceId
    sbOp,         \* the handler that runs or ran last
    sbPc,         \* its position
    sbCalls,      \* the remote calls it made so far with their answers, in order
    sbResp,       \* Read's local resp: the properties the Get answered
    sbErr         \* the error it returned, "" for nil

sbVars ==
    <<sbKind, sbBeta, sbCfg, d, resourceId, sbOp, sbPc, sbCalls, sbResp, sbErr>>

\* The handlers of azurerm_linux_function_app_on_container and their world.
VARIABLES
    faCfg,        \* the configuration Terraform hands to the handlers
    faState,      \* the Terraform state of the resource: id and attrs
    faSite,       \* the site the service holds: <<>> or <<site>>
    faOp,         \* the handler that runs or ran last
    faPc,         \* its position
    faCalls,      \* the service calls it made so far with their answers, in order
    faErr,        \* the error it returned, "" for nil
    faLocal,      \* its local variables
    faSent,       \* the site envelopes it sent with CreateOrUpdate, in order
    faUpdates,    \* how many times Update has run
    faCreated,    \* <<attrs>>: the state after Create followed by Read
    faImported    \* the state in faState comes from an import by ID

faVars ==
    <<faCfg, faState, faSite, faOp, faPc, faCalls, faErr, faLocal, faSent,
      faUpdates, faCreated, faImported>>

\* The Kubernetes cluster data source's Read and its world.
VARIABLES
    kcBeta,       \* features.ThreePointOhBeta()
    kcCluster,    \* the managed cluster the service holds: <<>> or <<cluster>>
    kcD,          \* the ResourceData: id, attrs, and the keys d.Set was called for
    kcPc,         \* Read's position
    kcCalls,      \* the remote calls it made so far with their answers, in order
    kcResp,       \* its local resp and profile: what Get and GetAccessProfile answered
    kcErr         \* the error it returned, "" for nil

kcVars == <<kcBeta, kcCluster, kcD, kcPc, kcCalls, kcResp, kcErr>>

vars == <<cacheVars, sbVars, faVars, kcVars>>

\* commonids.ParseStorageAccountID: eight segments with the fixed ones in place.
ParseStorageAccountID(id) ==
    LET s == id.segs IN
    IF /\ Len(s) = 8
       /\ s[1] = "subscriptions"
       /\ s[3] = "resourceGroups"
       /\ s[5] = "providers"
       /\ s[6] = "Microsoft.Storage"
       /\ s[7] = "storageAccounts"
    THEN [ok |-> TRUE, ResourceGroupName |-> s[4]]
    ELSE [ok |-> FALSE, ResourceGroupName |-> ""]

\* populateAccountDetails: err for a nil or unparseable ID, else the details
\* with no account key.
populateAccountDetails(accountName, props) ==
    IF props.id.isNil
    THEN [err |-> TRUE, account |-> NoDetails]
    ELSE LET id == ParseStorageAccountID(props.id) IN
         IF ~id.ok
         THEN [err |-> TRUE, account |-> NoDetails]
         ELSE [err |-> FALSE,
               account |-> [name |-> accountName,
                            id |-> props.id,
                            rg |-> id.ResourceGroupName,
                            key |-> NoKey]]

\* `_, ok := storageAccountsCache[name]`
InCache(c, n) == c[n] # NoDetails

\* ------------------------------------------------------------------------
\* Storage-account cache: the goroutines
\* ------------------------------------------------------------------------

Idle(p) == ~fatal /\ pc[p] = "idle"

At(p, label) == ~fatal /\ pc[p] = label

\* What the call that returned last returned, until the next call starts:
\* who returned, how, and with which key.
Outcome(p, kind, key) == [proc |-> p, kind |-> kind, key |-> key]

NoOutcome == Outcome("nobody", "none", NoKey)

\* A goroutine starts one of the four calls.  AccountKey is called on the
\* details a previous FindAccount returned.
Call(p) ==
    /\ Idle(p)
    /\ \/ \E n \in Names :
            /\ pc' = [pc EXCEPT ![p] = "add_lock"]
            /\ arg' = [arg EXCEPT ![p] = n]
            /\ UNCHANGED held
       \/ \E n \in Names :
            /\ pc' = [pc EXCEPT ![p] = "rm_lock"]
            /\ arg' = [arg EXCEPT ![p] = n]
            /\ UNCHANGED held
       \/ \E n \in Names :
            /\ pc' = [pc EXCEPT ![p] = "fa_lock"]
            /\ arg' = [arg EXCEPT ![p] = n]
            /\ held' = [held EXCEPT ![p] = NoDetails]
       \/ /\ held[p] # NoDetails
          /\ pc' = [pc EXCEPT ![p] = "ak_lock"]
          /\ arg' = [arg EXCEPT ![p] = held[p].name]
          /\ UNCHANGED held
    /\ ret' = NoOutcome
    /\ UNCHANGED <<storageAccountsCache, accountsLock, credentialsLock, fatal,
                   accounts, idx, cacheBefore>>

\* The arguments of a call live until the call returns.
ArgAfter(p) ==
    arg' = [arg EXCEPT ![p] = IF pc'[p] = "idle" THEN NoName ELSE @]

\* The positions inside FindAccount after accountsLock.Lock().
InFindAccount == {"fa_lookup", "fa_list", "fa_pages", "fa_loop"}

\* The cache without any entry.
EmptyCache == [n \in Names |-> NoDetails]

\* The cache as FindAccount found it when it took accountsLock, kept until
\* FindAccount returns.
CacheBeforeAfter(p) ==
    cacheBefore' =
        IF pc[p] = "fa_lock" /\ pc'[p] = "fa_lookup" THEN storageAccountsCache
        ELSE IF pc[p] \in InFindAccount /\ pc'[p] = "idle" THEN EmptyCache
        ELSE cacheBefore

\* AddToCache: accountsLock.Lock()
AddToCache_Lock(p) ==
    /\ At(p, "add_lock")
    /\ accountsLock = Free
    /\ accountsLock' = p
    /\ pc' = [pc EXCEPT ![p] = "add_store"]
    /\ UNCHANGED <<storageAccountsCache, credentialsLock, fatal, accounts,
                   idx, held, ret>>
    /\ ArgAfter(p)
    /\ CacheBeforeAfter(p)

\* AddToCache: populate, store, deferred Unlock.  `props` is the account the
\* caller passed.
AddToCache_Store(p) ==
    /\ At(p, "add_store")
    /\ \E props \in AccountsNamed(arg[p]) :
         LET r == populateAccountDetails(arg[p], props) IN
         /\ storageAccountsCache' =
              IF r.err THEN storageAccountsCache
              ELSE [storageAccountsCache EXCEPT ![arg[p]] = r.account]
         /\ ret' = Outcome(p, IF r.err THEN "add_err" ELSE "added", NoKey)
    /\ accountsLock' = Free
    /\ pc' = [pc EXCEPT ![p] = "idle"]
    /\ UNCHANGED <<credentialsLock, fatal, accounts, idx, held>>
    /\ ArgAfter(p)
    /\ CacheBeforeAfter(p)

\* RemoveAccountFromCache: accountsLock.Lock()
RemoveAccountFromCache_Lock(p) ==
    /\ At(p, "rm_lock")
    /\ accountsLock = Free
    /\ accountsLock' = p
    /\ pc' = [pc EXCEPT ![p] = "rm_delete"]
    /\ UNCHANGED <<storageAccountsCache, credentialsLock, fatal, accounts,
                   idx, held, ret>>
    /\ ArgAfter(p)
    /\ CacheBeforeAfter(p)

\* RemoveAccountFromCache: delete, Unlock.
RemoveAccountFromCache_Delete(p) ==
    /\ At(p, "rm_delete")
    /\ storageAccountsCache' =
         [storageAccountsCache EXCEPT ![arg[p]] = NoDetails]
    /\ accountsLock' = Free
    /\ ret' = Outcome(p, "removed", NoKey)
    /\ pc' = [pc EXCEPT ![p] = "idle"]
    /\ UNCHANGED <<credentialsLock, fatal, accounts, idx, held>>
    /\ ArgAfter(p)
    /\ CacheBeforeAfter(p)

\* A Lock that does not wait for the holder of accountsLock.
FindAccount_Lock_NoWait(p) ==
    /\ At(p, "fa_lock")
    /\ accountsLock' = p
    /\ pc' = [pc EXCEPT ![p] = "fa_lookup"]
    /\ UNCHANGED <<storageAccountsCache, credentialsLock, fatal, accounts,
                   idx, held, ret>>
    /\ ArgAfter(p)
    /\ CacheBeforeAfter(p)

\* FindAccount: accountsLock.Lock()
FindAccount_Lock(p) ==
    /\ At(p, "fa_lock")
    /\ accountsLock = Free
    /\ accountsLock' = p
    /\ pc' = [pc EXCEPT ![p] = "fa_lookup"]
    /\ UNCHANGED <<storageAccountsCache, credentialsLock, fatal, accounts,
                   idx, held, ret>>
    /\ ArgAfter(p)
    /\ CacheBeforeAfter(p)

\* FindAccount: the first lookup; a hit returns a copy of the entry.
FindAccount_Lookup(p) ==
    /\ At(p, "fa_lookup")
    /\ IF InCache(storageAccountsCache, arg[p])
       THEN /\ held' = [held EXCEPT ![p] = storageAccountsCache[arg[p]]]
            /\ ret' = Outcome(p, "hit", NoKey)
            /\ accountsLock' = Free
            /\ pc' = [pc EXCEPT ![p] = "idle"]
       ELSE /\ pc' = [pc EXCEPT ![p] = "fa_list"]
            /\ UNCHANGED <<held, ret, accountsLock>>
    /\ UNCHANGED <<storageAccountsCache, credentialsLock, fatal, accounts, idx>>
    /\ ArgAfter(p)
    /\ CacheBeforeAfter(p)

\* FindAccount: c.AccountsClient.List(ctx) fails or answers the first page.
FindAccount_List(p) ==
    /\ At(p, "fa_list")
    /\ \/ /\ held' = [held EXCEPT ![p] = NoDetails]
          /\ ret' = Outcome(p, "fa_err", NoKey)
          /\ accountsLock' = Free
          /\ pc' = [pc EXCEPT ![p] = "idle"]
       \/ /\ pc' = [pc EXCEPT ![p] = "fa_pages"]
          /\ UNCHANGED <<held, ret, accountsLock>>
    /\ UNCHANGED <<storageAccountsCache, credentialsLock, fatal, accounts, idx>>
    /\ ArgAfter(p)
    /\ CacheBeforeAfter(p)

\* FindAccount: the paging loop.  Either every page is fetched and `accounts`
\* holds their values, or NextWithContext fails after some page.
FindAccount_Pages(p) ==
    /\ At(p, "fa_pages")
    /\ \/ \E listed \in SeqUpTo(ListedAccounts, MaxAccounts) :
            /\ accounts' = [accounts EXCEPT ![p] = listed]
            /\ idx' = [idx EXCEPT ![p] = 1]
            /\ pc' = [pc EXCEPT ![p] = "fa_loop"]
            /\ UNCHANGED <<held, ret, accountsLock>>
       \/ /\ held' = [held EXCEPT ![p] = NoDetails]
          /\ ret' = Outcome(p, "fa_err", NoKey)
          /\ accountsLock' = Free
          /\ pc' = [pc EXCEPT ![p] = "idle"]
          /\ UNCHANGED <<accounts, idx>>
    /\ UNCHANGED <<storageAccountsCache, credentialsLock, fatal>>
    /\ ArgAfter(p)
    /\ CacheBeforeAfter(p)

\* FindAccount: one iteration of `for _, v := range accounts`.
FindAccount_Store(p) ==
    /\ At(p, "fa_loop")
    /\ idx[p] <= Len(accounts[p])
    /\ LET v == accounts[p][idx[p]]
           r == populateAccountDetails(v.name, v)
       IN  IF v.name = NoName
           THEN /\ idx' = [idx EXCEPT ![p] = idx[p] + 1]
                /\ UNCHANGED <<storageAccountsCache, accounts, held, ret,
                               accountsLock, pc>>
           ELSE IF r.err
           THEN /\ held' = [held EXCEPT ![p] = NoDetails]
                /\ ret' = Outcome(p, "fa_err", NoKey)
                /\ accountsLock' = Free
                /\ pc' = [pc EXCEPT ![p] = "idle"]
                /\ accounts' = [accounts EXCEPT ![p] = <<>>]
                /\ idx' = [idx EXCEPT ![p] = 1]
                /\ UNCHANGED storageAccountsCache
           ELSE /\ storageAccountsCache' =
                     [storageAccountsCache EXCEPT ![v.name] = r.account]
                /\ idx' = [idx EXCEPT ![p] = idx[p] + 1]
                /\ UNCHANGED <<accounts, held, ret, accountsLock, pc>>
    /\ UNCHANGED <<credentialsLock, fatal>>
    /\ ArgAfter(p)
    /\ CacheBeforeAfter(p)

\* FindAccount: the second lookup, after the loop.
FindAccount_Final(p) ==
    /\ At(p, "fa_loop")
    /\ idx[p] > Len(accounts[p])
    /\ IF InCache(storageAccountsCache, arg[p])
       THEN /\ held' = [held EXCEPT ![p] = storageAccountsCache[arg[p]]]
            /\ ret' = Outcome(p, "found", NoKey)
       ELSE /\ held' = [held EXCEPT ![p] = NoDetails]
            /\ ret' = Outcome(p, "nil", NoKey)
    /\ accountsLock' = Free
    /\ pc' = [pc EXCEPT ![p] = "idle"]
    /\ accounts' = [accounts EXCEPT ![p] = <<>>]
    /\ idx' = [idx EXCEPT ![p] = 1]
    /\ UNCHANGED <<storageAccountsCache, credentialsLock, fatal>>
    /\ ArgAfter(p)
    /\ CacheBeforeAfter(p)

\* AccountKey: credentialsLock.Lock()
AccountKey_Lock(p) ==
    /\ At(p, "ak_lock")
    /\ credentialsLock = Free
    /\ credentialsLock' = p
    /\ pc' = [pc EXCEPT ![p] = "ak_check"]
    /\ UNCHANGED <<storageAccountsCache, accountsLock, fatal, accounts, idx,
                   held, ret>>
    /\ ArgAfter(p)
    /\ CacheBeforeAfter(p)

\* AccountKey: a key already in the details is returned without a remote call.
AccountKey_Check(p) ==
    /\ At(p, "ak_check")
    /\ IF held[p].key # NoKey
       THEN /\ ret' = Outcome(p, "key", held[p].key)
            /\ credentialsLock' = Free
            /\ pc' = [pc EXCEPT ![p] = "idle"]
       ELSE /\ pc' = [pc EXCEPT ![p] = "ak_listkeys"]
            /\ UNCHANGED <<ret, credentialsLock>>
    /\ UNCHANGED <<storageAccountsCache, accountsLock, fatal, accounts, idx,
                   held>>
    /\ ArgAfter(p)
    /\ CacheBeforeAfter(p)

\* What client.AccountsClient.ListKeys can answer: an error, no key list, an
\* empty key list, a first key without a value, or a first key with a value.
ListKeysAnswers ==
    {[kind |-> k, key |-> NoKey] : k \in {"error", "nilKeys", "noKeys", "nilValue"}}
      \cup {[kind |-> "keys", key |-> k] : k \in Keys}

\* A check of the answer that does not look at the first key's value.
KeysWereNil_ValueUnchecked(props) == props.kind \in {"nilKeys", "noKeys"}

\* AccountKey, line 59: the answer has no key list, an empty one, or a first
\* key without a value.
KeysWereNil(props) == props.kind \in {"nilKeys", "noKeys", "nilValue"}

\* AccountKey: the remote lookup; on success the key is put in the details.
AccountKey_ListKeys(p) ==
    /\ At(p, "ak_listkeys")
    /\ \E props \in ListKeysAnswers :
         IF props.kind = "error" \/ KeysWereNil(props)
         THEN /\ ret' = Outcome(p, "ak_err", NoKey)
              /\ credentialsLock' = Free
              /\ pc' = [pc EXCEPT ![p] = "idle"]
              /\ UNCHANGED held
         ELSE /\ held' = [held EXCEPT ![p].key = props.key]
              /\ pc' = [pc EXCEPT ![p] = "ak_store"]
              /\ UNCHANGED <<ret, credentialsLock>>
    /\ UNCHANGED <<storageAccountsCache, accountsLock, fatal, accounts, idx>>
    /\ ArgAfter(p)
    /\ CacheBeforeAfter(p)

\* AccountKey: "force-cache this", then the deferred Unlock of credentialsLock.
AccountKey_Store(p) ==
    /\ At(p, "ak_store")
    /\ storageAccountsCache' =
         [storageAccountsCache EXCEPT ![held[p].name] = held[p]]
    /\ ret' = Outcome(p, "keyRemote", held[p].key)
    /\ credentialsLock' = Free
    /\ pc' = [pc EXCEPT ![p] = "idle"]
    /\ UNCHANGED <<accountsLock, fatal, accounts, idx, held>>
    /\ ArgAfter(p)
    /\ CacheBeforeAfter(p)

\* The goroutine's next step reads the cache map.
ReadsCache(p) ==
    \/ pc[p] = "fa_lookup"
    \/ pc[p] = "fa_loop" /\ idx[p] > Len(accounts[p])

\* The goroutine's next step writes the cache map.
WritesCache(p) ==
    \/ pc[p] = "add_store"
    \/ pc[p] = "rm_delete"
    \/ /\ pc[p] = "fa_loop"
       /\ idx[p] <= Len(accounts[p])
       /\ accounts[p][idx[p]].name # NoName
       /\ ~populateAccountDetails(accounts[p][idx[p]].name, accounts[p][idx[p]]).err
    \/ pc[p] = "ak_store"

AccessesCache(p) == ReadsCache(p) \/ WritesCache(p)

\* Two goroutines are at an access of the map with no lock ordering them and
\* one of them writes: a data race.
DataRace ==
    \E p, q \in Procs :
        /\ p # q
        /\ WritesCache(p)
        /\ AccessesCache(q)

\* A racing access of a Go map has no defined outcome: besides the two
\* orders of the accesses (the steps above), the runtime may stop the program
\* ("fatal error: concurrent map writes").
RuntimeFatal ==
    /\ ~fatal
    /\ DataRace
    /\ fatal' = TRUE
    /\ UNCHANGED <<storageAccountsCache, accountsLock, credentialsLock, pc, arg,
                   accounts, idx, held, ret, cacheBefore>>

InitCache ==
    /\ storageAccountsCache = [n \in Names |-> NoDetails]
    /\ accountsLock = Free
    /\ credentialsLock = Free
    /\ fatal = FALSE
    /\ pc = [p \in Procs |-> "idle"]
    /\ arg = [p \in Procs |-> NoName]
    /\ accounts = [p \in Procs |-> <<>>]
    /\ idx = [p \in Procs |-> 1]
    /\ held = [p \in Procs |-> NoDetails]
    /\ ret = NoOutcome
    /\ cacheBefore = EmptyCache

NextCache ==
    \E p \in Procs :
        \/ Call(p) /\ UNCHANGED <<sbVars, faVars, kcVars>>
        \/ AddToCache_Lock(p) /\ UNCHANGED <<sbVars, faVars, kcVars>>
        \/ AddToCache_Store(p) /\ UNCHANGED <<sbVars, faVars, kcVars>>
        \/ RemoveAccountFromCache_Lock(p) /\ UNCHANGED <<sbVars, faVars, kcVars>>
        \/ RemoveAccountFromCache_Delete(p) /\ UNCHANGED <<sbVars, faVars, kcVars>>
        \/ FindAccount_Lock(p) /\ UNCHANGED <<sbVars, faVars, kcVars>>
        \/ FindAccount_Lookup(p) /\ UNCHANGED <<sbVars, faVars, kcVars>>
        \/ FindAccount_List(p) /\ UNCHANGED <<sbVars, faVars, kcVars>>
        \/ FindAccount_Pages(p) /\ UNCHANGED <<sbVars, faVars, kcVars>>
        \/ FindAccount_Store(p) /\ UNCHANGED <<sbVars, faVars, kcVars>>
        \/ FindAccount_Final(p) /\ UNCHANGED <<sbVars, faVars, kcVars>>
        \/ AccountKey_Lock(p) /\ UNCHANGED <<sbVars, faVars, kcVars>>
        \/ AccountKey_Check(p) /\ UNCHANGED <<sbVars, faVars, kcVars>>
        \/ AccountKey_ListKeys(p) /\ UNCHANGED <<sbVars, faVars, kcVars>>
        \/ AccountKey_Store(p) /\ UNCHANGED <<sbVars, faVars, kcVars>>
        \/ RuntimeFatal /\ UNCHANGED <<sbVars, faVars, kcVars>>


\* ------------------------------------------------------------------------
\* Storage-account cache: properties
\* ------------------------------------------------------------------------

\* C1: every read and write of the cache map is made under one and the same
\* mutex, so no two goroutines are at an access of the map at the same time.
C1_NoTwoAccessAtOnce ==
    \A p, q \in Procs :
        p # q => ~(AccessesCache(p) /\ AccessesCache(q))

\* The names of the accounts a listing holds.
ListedNames(listed) ==
    {listed[i].name : i \in 1..Len(listed)} \ {NoName}

\* C2: FindAccount(name) answers a cached entry without listing; on a miss it
\* lists, stores an entry for every listed account that has a name, and
\* returns the entry for name, or nil without error when the listing does not
\* contain name.
C2_FindAccountContract ==
    [][\A p \in Procs :
        /\ (pc[p] = "fa_lookup" /\ pc'[p] # "fa_lookup"
              /\ InCache(storageAccountsCache, arg[p]))
             => /\ pc'[p] = "idle"
                /\ ret' = Outcome(p, "hit", NoKey)
                /\ held'[p] = storageAccountsCache[arg[p]]
        /\ (pc[p] = "fa_loop" /\ pc'[p] = "idle" /\ ret'.kind # "fa_err")
             => /\ \A n \in ListedNames(accounts[p]) :
                      InCache(storageAccountsCache', n)
                /\ IF arg[p] \in ListedNames(accounts[p])
                   THEN /\ ret'.kind = "found"
                        /\ held'[p] = storageAccountsCache'[arg[p]]
                        /\ held'[p].name = arg[p]
                   ELSE /\ ret'.kind = "nil"
                        /\ held'[p] = NoDetails
      ]_vars

\* The step is goroutine p's store of an entry for n by AddToCache, its delete
\* of n by RemoveAccountFromCache, or its store of the listed account n in
\* FindAccount's loop.
AddRemoveOrListing(p, n) ==
    \/ pc[p] = "add_store" /\ pc'[p] = "idle" /\ arg[p] = n
    \/ pc[p] = "rm_delete" /\ pc'[p] = "idle" /\ arg[p] = n
    \/ /\ pc[p] = "fa_loop"
       /\ idx'[p] = idx[p] + 1
       /\ accounts[p][idx[p]].name = n

\* C15: the key of a cached account is looked up remotely at most once.  Once
\* AccountKey has put a key in the cache entry of n, the entry keeps this key
\* until AddToCache(n), RemoveAccountFromCache(n) or a listing stores n; a
\* FindAccount(n) that finds the entry returns it, and AccountKey on details
\* with a key returns this key without ListKeys.
C15_KeyLookedUpOnce ==
    [][/\ \A n \in Names :
            (/\ storageAccountsCache[n].key # NoKey
             /\ storageAccountsCache'[n].key # storageAccountsCache[n].key)
              => \E p \in Procs : AddRemoveOrListing(p, n)
       /\ \A p \in Procs :
            /\ (pc[p] = "fa_lookup" /\ pc'[p] = "idle")
                 => held'[p] = storageAccountsCache[arg[p]]
            /\ (pc[p] = "ak_check" /\ pc'[p] # "ak_check"
                   /\ held[p].key # NoKey)
                 => /\ pc'[p] = "idle"
                    /\ ret' = Outcome(p, "key", held[p].key)
      ]_vars

\* C16: an AccountKey whose ListKeys fails, or answers no key list, an empty
\* list or a first key without a value, returns an error, leaves the details
\* without a key and the cache as it was; any other answer puts one of the
\* service's keys in the details.  AccountKey on details without a key,
\* as they are after such an error, calls ListKeys.
C16_AccountKeyError ==
    [][\A p \in Procs :
        /\ (pc[p] = "ak_listkeys" /\ pc'[p] # "ak_listkeys")
             => /\ storageAccountsCache' = storageAccountsCache
                /\ \/ /\ pc'[p] = "idle"
                      /\ ret' = Outcome(p, "ak_err", NoKey)
                      /\ held'[p] = held[p]
                      /\ held[p].key = NoKey
                      /\ credentialsLock' = Free
                   \/ /\ pc'[p] = "ak_store"
                      /\ held'[p].key \in Keys
        /\ (pc[p] = "idle" /\ pc'[p] = "ak_lock")
             => held'[p] = held[p]
        /\ (pc[p] = "ak_check" /\ pc'[p] # "ak_check" /\ held[p].key = NoKey)
             => pc'[p] = "ak_listkeys"
      ]_vars

\* AccountKey has returned an error to a goroutine whose details are those
\* of a cached account and hold no key.
C16_Witness ==
    \E p \in Procs :
        /\ ret = Outcome(p, "ak_err", NoKey)
        /\ pc[p] = "idle"
        /\ held[p] # NoDetails
        /\ held[p].key = NoKey
        /\ storageAccountsCache[held[p].name] = held[p]

\* C17: a FindAccount that returns an error - the listing failed, a later
\* page failed, or a listed account has no ID or one that does not parse -
\* leaves the cache as it was when the call took the lock.
C17_FailedFindAccountKeepsCache ==
    [][\A p \in Procs :
        (pc[p] \in InFindAccount /\ pc'[p] = "idle"
           /\ ret' = Outcome(p, "fa_err", NoKey))
          => storageAccountsCache' = cacheBefore
      ]_vars

\* C18: of two concurrent FindAccount calls for the same account that is not
\* cached, one lists the accounts and the other does not.  FindAccount holds
\* accountsLock from its Lock to its return, the listing included; a call
\* at its Lock waits while another is inside; the listing is called only
\* after a miss; when the first call returns the listed account, the entry
\* is in the cache, and a call that finds the entry returns it without
\* listing.
C18_ConcurrentFindAccountListsOnce ==
    [][\A p, q \in Procs :
        p # q
          => /\ pc'[p] \in InFindAccount => accountsLock' = p
             /\ (pc[p] \in InFindAccount /\ pc[q] = "fa_lock")
                  => pc'[q] = "fa_lock"
             /\ (pc[p] # "fa_list" /\ pc'[p] = "fa_list")
                  => /\ pc[p] = "fa_lookup"
                     /\ ~InCache(storageAccountsCache, arg[p])
             /\ (pc[p] = "fa_loop" /\ pc'[p] = "idle" /\ ret'.kind = "found"
                    /\ pc[q] = "fa_lock" /\ arg[q] = arg[p])
                  => InCache(storageAccountsCache', arg[q])
             /\ (pc[q] = "fa_lookup" /\ pc'[q] # "fa_lookup"
                    /\ InCache(storageAccountsCache, arg[q]))
                  => /\ pc'[q] = "idle"
                     /\ ret' = Outcome(q, "hit", NoKey)
                     /\ held'[q] = storageAccountsCache[arg[q]]
      ]_vars

\* One call is fetching the listing for an account that is not cached while
\* the other call, for the same account, is at its Lock.
C18_Witness ==
    \E p, q \in Procs :
        /\ p # q
        /\ pc[p] = "fa_pages"
        /\ pc[q] = "fa_lock"
        /\ arg[q] = arg[p]
        /\ ~InCache(storageAccountsCache, arg[p])
        /\ accountsLock = p

\* The steps of a call of goroutine p that has started.
Run(p) ==
    /\ \/ AddToCache_Lock(p)
       \/ AddToCache_Store(p)
       \/ RemoveAccountFromCache_Lock(p)
       \/ RemoveAccountFromCache_Delete(p)
       \/ FindAccount_Lock(p)
       \/ FindAccount_Lookup(p)
       \/ FindAccount_List(p)
       \/ FindAccount_Pages(p)
       \/ FindAccount_Store(p)
       \/ FindAccount_Final(p)
       \/ AccountKey_Lock(p)
       \/ AccountKey_Check(p)
       \/ AccountKey_ListKeys(p)
       \/ AccountKey_Store(p)
    /\ UNCHANGED <<sbVars, faVars, kcVars>>

\* A goroutine holds at most one of the two locks, and none between calls.
OneLockAtATime ==
    \A p \in Procs :
        /\ ~(accountsLock = p /\ credentialsLock = p)
        /\ pc[p] = "idle" => (accountsLock # p /\ credentialsLock # p)

\* C19: no interleaving of concurrent AddToCache, RemoveAccountFromCache,
\* FindAccount and AccountKey calls deadlocks: a call holds at most one of
\* the two locks at a time and has released it when it returns, and every
\* call that started returns.
C19_EveryCallReturns ==
    /\ []OneLockAtATime
    /\ \A p \in Procs : (pc[p] # "idle") ~> (pc[p] = "idle")

\* The step is goroutine p's store of an entry for n by AddToCache or by
\* FindAccount's loop over a listing that contains n.
AddOrListing(p, n) ==
    \/ pc[p] = "add_store" /\ pc'[p] = "idle" /\ arg[p] = n
    \/ /\ pc[p] = "fa_loop"
       /\ idx'[p] = idx[p] + 1
       /\ accounts[p][idx[p]].name = n

\* C20: when RemoveAccountFromCache(n) returns the cache holds no entry for
\* n, and an entry for n that is not in the cache comes back only by
\* AddToCache(n) or by a FindAccount listing that contains n - not by
\* AccountKey on details obtained before the removal.
C20_RemovedStaysRemoved ==
    [][/\ \A p \in Procs :
            (pc[p] = "rm_delete" /\ pc'[p] = "idle")
              => ~InCache(storageAccountsCache', arg[p])
       /\ \A n \in Names :
            (~InCache(storageAccountsCache, n) /\ InCache(storageAccountsCache', n))
              => \E p \in Procs : AddOrListing(p, n)
      ]_vars

\* The step is a step of goroutine p inside FindAccount, after its Lock.
FindAccountStep(p) ==
    /\ pc[p] \in InFindAccount
    /\ pc'[p] # pc[p] \/ idx'[p] # idx[p]

\* C21: a FindAccount call for an account leaves the cache entry of every
\* other account that is already cached as it is; in particular a key cached
\* for the other account stays cached, also when the call misses and lists
\* the accounts.
C21_FindAccountKeepsOtherEntries ==
    [][\A p \in Procs : \A n \in Names :
        (FindAccountStep(p) /\ n # arg[p] /\ InCache(storageAccountsCache, n))
          => storageAccountsCache'[n] = storageAccountsCache[n]
      ]_vars

\* ------------------------------------------------------------------------
\* Service Bus subscription / namespace rule / topic rule: values
\* ------------------------------------------------------------------------

\* The three resources whose handlers are modelled.
Kinds == {"subscription", "namespace_rule", "topic_rule"}

\* The provider's own subscription (meta.Account.SubscriptionId).
ProviderSubscription == "sub1"

\* An ID with no value: d.Id() == "", or an unset topic_id / namespace_id.
NoId == <<>>

\* parse.NewTopicID(...).ID()
TopicIdOf(sub, rg, ns, topic) ==
    <<"subscriptions", sub, "resourceGroups", rg, "providers",
      "Microsoft.ServiceBus", "namespaces", ns, "topics", topic>>

\* parse.NewNamespaceID(...).ID()
NamespaceIdOf(sub, rg, ns) ==
    <<"subscriptions", sub, "resourceGroups", rg, "providers",
      "Microsoft.ServiceBus", "namespaces", ns>>

\* parse.TopicID / parse.NamespaceID: the fields of a parent ID (a namespace
\* ID has no topic).
ParseParentID(id) ==
    [SubscriptionId |-> id[2],
     ResourceGroup |-> id[4],
     NamespaceName |-> id[8],
     Name |-> IF Len(id) >= 10 THEN id[10] ELSE ""]

\* The zero value of a resource ID struct (`var resourceId parse....Id`).
ZeroResourceId ==
    [SubscriptionId |-> "", ResourceGroup |-> "", NamespaceName |-> "",
     TopicName |-> "", Name |-> ""]

\* parse.NewSubscriptionID / NewNamespaceAuthorizationRuleID /
\* NewTopicAuthorizationRuleID
NewResourceID(sub, rg, ns, topic, name) ==
    [SubscriptionId |-> sub, ResourceGroup |-> rg, NamespaceName |-> ns,
     TopicName |-> topic, Name |-> name]

\* resourceId.ID() of the three resources.
ResourceIdString(kind, rid) ==
    IF kind = "namespace_rule"
    THEN NamespaceIdOf(rid.SubscriptionId, rid.ResourceGroup, rid.NamespaceName)
           \o <<"AuthorizationRules", rid.Name>>
    ELSE TopicIdOf(rid.SubscriptionId, rid.ResourceGroup, rid.NamespaceName,
                   rid.TopicName)
           \o <<IF kind = "subscription" THEN "subscriptions"
                ELSE "authorizationRules", rid.Name>>

\* parse.SubscriptionID / NamespaceAuthorizationRuleID /
\* TopicAuthorizationRuleID applied to d.Id().
ParseResourceID(kind, id) ==
    IF kind = "namespace_rule"
    THEN IF Len(id) = 10 /\ id[9] = "AuthorizationRules"
         THEN [ok |-> TRUE,
               id |-> NewResourceID(id[2], id[4], id[8], "", id[10])]
         ELSE [ok |-> FALSE, id |-> ZeroResourceId]
    ELSE IF /\ Len(id) = 12
            /\ id[9] = "topics"
            /\ id[11] = (IF kind = "subscription" THEN "subscriptions"
                         ELSE "authorizationRules")
         THEN [ok |-> TRUE,
               id |-> NewResourceID(id[2], id[4], id[8], id[10], id[12])]
         ELSE [ok |-> FALSE, id |-> ZeroResourceId]

\* The attributes of the resource, as configured or as stored in state:
\* name, the parent ID (topic_id / namespace_id), the deprecated name fields,
\* the properties sent to or read from the service, and the keys read.
NoAttrs ==
    [name |-> "", parent |-> NoId, resource_group_name |-> "",
     namespace_name |-> "", topic_name |-> "", props |-> "", keys |-> ""]

\* The parent ID a configuration names for a resource kind.
ParentIds(kind) ==
    IF kind = "namespace_rule"
    THEN {NamespaceIdOf("sub2", "rg1", "ns1")}
    ELSE {TopicIdOf("sub2", "rg1", "ns1", "t1")}

\* Configurations with the parent ID set (the only ones in 3.0-beta mode).
ConfigsWithParent(kind) ==
    {[NoAttrs EXCEPT !.name = "n1", !.parent = id, !.props = pr] :
        id \in ParentIds(kind), pr \in {"p1", "p2"}}

\* Configurations of non-beta mode that use the deprecated name fields, each
\* of them Optional.
ConfigsWithNames(kind) ==
    {[NoAttrs EXCEPT !.name = "n1", !.resource_group_name = rg,
                     !.namespace_name = ns, !.topic_name = t, !.props = pr] :
        rg \in {"", "rg1"}, ns \in {"", "ns1"},
        t \in (IF kind = "namespace_rule" THEN {""} ELSE {"", "t1"}),
        pr \in {"p1", "p2"}}

\* The configurations the schema of a kind accepts: name is Required; the
\* parent ID is Required in 3.0-beta mode, where the deprecated fields do not
\* exist; otherwise it is Optional and ConflictsWith each deprecated field.
SchemaAccepts(kind, beta) ==
    IF beta THEN ConfigsWithParent(kind)
    ELSE ConfigsWithParent(kind) \cup ConfigsWithNames(kind)

\* ------------------------------------------------------------------------
\* Service Bus handlers: state
\* ------------------------------------------------------------------------

\* d.Get(k) inside create/update: the configured value; an attribute that is
\* Optional and Computed and not configured keeps the value stored in state.
\* In 3.0-beta mode the parent ID is Required, not Computed.
Get(k) ==
    IF sbCfg[k] # NoAttrs[k] THEN sbCfg[k]
    ELSE IF sbBeta THEN NoAttrs[k]
    ELSE d.st[k]

SbReturn(err) ==
    /\ sbErr' = err
    /\ sbPc' = "done"

\* Terraform calls Create for a resource that is not in state.
SB_StartCreate ==
    /\ sbPc = "idle"
    /\ d.id = NoId
    /\ d' = [id |-> NoId, isNew |-> TRUE, st |-> NoAttrs]
    /\ sbOp' = "create"
    /\ sbPc' = "cu_id"
    /\ sbCalls' = <<>>
    /\ sbErr' = ""
    /\ UNCHANGED <<sbResp, sbKind, sbBeta, sbCfg, resourceId>>

\* Terraform calls Update for a resource in state whose configuration
\* changed in an attribute that does not force a new resource.
SB_StartUpdate ==
    /\ sbPc = "idle"
    /\ d.id # NoId
    /\ \E pr \in {"p1", "p2"} :
         /\ pr # sbCfg.props
         /\ sbCfg' = [sbCfg EXCEPT !.props = pr]
    /\ d' = [d EXCEPT !.isNew = FALSE]
    /\ sbOp' = "update"
    /\ sbPc' = "cu_id"
    /\ sbCalls' = <<>>
    /\ sbErr' = ""
    /\ UNCHANGED <<sbResp, sbKind, sbBeta, resourceId>>

\* A resource ID that takes the subscription from the provider instead of
\* from the parent ID.
ComputeResourceId_ProviderSubscription ==
    IF Get("parent") # NoId
    THEN LET parentId == ParseParentID(Get("parent")) IN
         NewResourceID(ProviderSubscription, parentId.ResourceGroup,
                       parentId.NamespaceName, parentId.Name, Get("name"))
    ELSE ZeroResourceId

\* create/update: the resource ID, from the parent ID when it is set, else
\* (non-beta mode only) from the deprecated name fields.
ComputeResourceId ==
    IF Get("parent") # NoId
    THEN LET parentId == ParseParentID(Get("parent")) IN
         NewResourceID(parentId.SubscriptionId, parentId.ResourceGroup,
                       parentId.NamespaceName, parentId.Name, Get("name"))
    ELSE IF ~sbBeta
    THEN NewResourceID(ProviderSubscription, Get("resource_group_name"),
                       Get("namespace_name"), Get("topic_name"), Get("name"))
    ELSE ZeroResourceId

SB_ResourceId ==
    /\ sbPc = "cu_id"
    /\ resourceId' = ComputeResourceId
    /\ sbPc' = IF d.isNew THEN "cu_check" ELSE "cu_put"
    /\ UNCHANGED <<sbResp, sbKind, sbBeta, sbCfg, d, sbOp, sbCalls, sbErr>>

\* An existence check that forgets the import error for a found resource.
ExistenceCheckError_NoImportError(existing) ==
    IF existing = "error" THEN "checking for presence" ELSE ""

\* create/update, d.IsNewResource(): the error the answer of the remote Get
\* leads to, "" for none.  An error that is not not-found is returned; a Get
\* that is not not-found is "already exists".
ExistenceCheckError(existing) ==
    IF existing = "error" THEN "checking for presence"
    ELSE IF existing # "notfound" THEN "already exists"
    ELSE ""

\* create/update, d.IsNewResource(): the remote Get.
SB_ExistenceCheck ==
    /\ sbPc = "cu_check"
    /\ \E existing \in {"found", "notfound", "error"} :
         /\ sbCalls' = Append(sbCalls, <<"Get", existing>>)
         /\ IF ExistenceCheckError(existing) # ""
            THEN SbReturn(ExistenceCheckError(existing))
            ELSE sbPc' = "cu_put" /\ UNCHANGED sbErr
    /\ UNCHANGED <<sbResp, sbKind, sbBeta, sbCfg, d, resourceId, sbOp>>

\* create/update: CreateOrUpdate, then d.SetId; the subscription goes on to
\* Read, the rules to the wait for replication.
SB_CreateOrUpdate ==
    /\ sbPc = "cu_put"
    /\ \/ /\ sbCalls' = Append(sbCalls, <<"CreateOrUpdate", "error">>)
          /\ SbReturn("creating/updating")
          /\ UNCHANGED d
       \/ /\ sbCalls' = Append(sbCalls, <<"CreateOrUpdate", "ok">>)
          /\ d' = [d EXCEPT !.id = ResourceIdString(sbKind, resourceId)]
          /\ sbPc' = IF sbKind = "subscription" THEN "rd_get" ELSE "cu_wait"
          /\ UNCHANGED sbErr
    /\ UNCHANGED <<sbResp, sbKind, sbBeta, sbCfg, resourceId, sbOp>>

\* A wait whose failure is not returned.
SB_WaitForReplication_IgnoreError ==
    /\ sbPc = "cu_wait"
    /\ \E answer \in {"error", "ok"} :
         sbCalls' = Append(sbCalls, <<"WaitForReplication", answer>>)
    /\ sbPc' = "rd_get"
    /\ UNCHANGED <<sbErr, sbResp, sbKind, sbBeta, sbCfg, d, resourceId, sbOp>>

\* create/update of the rules: waitForPairedNamespaceReplication.
SB_WaitForReplication ==
    /\ sbPc = "cu_wait"
    /\ \/ /\ sbCalls' = Append(sbCalls, <<"WaitForReplication", "error">>)
          /\ SbReturn("waiting for replication")
       \/ /\ sbCalls' = Append(sbCalls, <<"WaitForReplication", "ok">>)
          /\ sbPc' = "rd_get"
          /\ UNCHANGED sbErr
    /\ UNCHANGED <<sbResp, sbKind, sbBeta, sbCfg, d, resourceId, sbOp>>

\* Terraform calls Read to refresh a resource in state, or after an import.
SB_StartRead ==
    /\ sbPc = "idle"
    /\ d.id # NoId
    /\ d' = [d EXCEPT !.isNew = FALSE]
    /\ sbOp' = "read"
    /\ sbPc' = "rd_get"
    /\ sbCalls' = <<>>
    /\ sbErr' = ""
    /\ UNCHANGED <<sbResp, sbKind, sbBeta, sbCfg, resourceId>>

\* Read, on a found resource: the attributes taken from the ID and, when the
\* answer has properties, from the answer.
ReadAttrs(id, props) ==
    LET a == IF sbBeta THEN d.st
             ELSE [d.st EXCEPT !.topic_name =
                                  IF sbKind = "namespace_rule" THEN @
                                  ELSE id.TopicName,
                               !.namespace_name = id.NamespaceName,
                               !.resource_group_name = id.ResourceGroup]
        b == [a EXCEPT !.name = id.Name,
                       !.parent =
                          IF sbKind = "namespace_rule"
                          THEN NamespaceIdOf(id.SubscriptionId, id.ResourceGroup,
                                             id.NamespaceName)
                          ELSE TopicIdOf(id.SubscriptionId, id.ResourceGroup,
                                         id.NamespaceName, id.TopicName)]
    IN  IF props = "" THEN b ELSE [b EXCEPT !.props = props]

\* A Read that treats not-found like any other error.
ReadGetFailure_NotFoundIsError(resp) ==
    [gone |-> FALSE, err |-> IF resp = "found" THEN "" ELSE "retrieving"]

\* Read: what a failed Get leads to.  Not-found marks the resource as gone;
\* another error is returned.
ReadGetFailure(resp) ==
    [gone |-> resp = "notfound",
     err |-> IF resp = "error" THEN "retrieving" ELSE ""]

\* Read: parse d.Id(), the remote Get.  Not-found clears the ID and returns
\* nil; another error is returned.  The subscription and the topic rule
\* write the attributes here, the namespace rule after ListKeys.
SB_ReadGet ==
    /\ sbPc = "rd_get"
    /\ LET id == ParseResourceID(sbKind, d.id) IN
       IF ~id.ok
       THEN /\ SbReturn("parsing")
            /\ UNCHANGED <<d, sbCalls, sbResp>>
       ELSE \E resp \in {"notfound", "error", "found"} :
              /\ sbCalls' = Append(sbCalls, <<"Get", resp>>)
              /\ IF ReadGetFailure(resp).gone
                 THEN /\ d' = [d EXCEPT !.id = NoId]
                      /\ SbReturn("")
                      /\ UNCHANGED sbResp
                 ELSE IF ReadGetFailure(resp).err # ""
                 THEN /\ SbReturn(ReadGetFailure(resp).err)
                      /\ UNCHANGED <<d, sbResp>>
                 ELSE \E props \in {"", "p1", "p2"} :
                      /\ sbResp' = props
                      /\ d' = IF sbKind = "namespace_rule" THEN d
                              ELSE [d EXCEPT !.st = ReadAttrs(id.id, props)]
                      /\ IF sbKind = "subscription"
                         THEN SbReturn("")
                         ELSE sbPc' = "rd_keys" /\ UNCHANGED sbErr
    /\ UNCHANGED <<sbKind, sbBeta, sbCfg, resourceId, sbOp>>

\* Read of the rules: ListKeys.  An error is returned; else the keys are
\* written (by the namespace rule: after the other attributes).
SB_ReadListKeys ==
    /\ sbPc = "rd_keys"
    /\ \/ /\ sbCalls' = Append(sbCalls, <<"ListKeys", "error">>)
          /\ SbReturn("listing keys")
          /\ UNCHANGED d
       \/ /\ sbCalls' = Append(sbCalls, <<"ListKeys", "ok">>)
          /\ LET id == ParseResourceID(sbKind, d.id).id
                 a == IF sbKind = "namespace_rule"
                      THEN ReadAttrs(id, sbResp) ELSE d.st
             IN  d' = [d EXCEPT !.st = [a EXCEPT !.keys = "remote"]]
          /\ SbReturn("")
    /\ UNCHANGED <<sbKind, sbBeta, sbCfg, resourceId, sbOp, sbResp>>

\* Terraform calls Delete for a resource in state.
SB_StartDelete ==
    /\ sbPc = "idle"
    /\ d.id # NoId
    /\ d' = [d EXCEPT !.isNew = FALSE]
    /\ sbOp' = "delete"
    /\ sbPc' = "del"
    /\ sbCalls' = <<>>
    /\ sbErr' = ""
    /\ UNCHANGED <<sbKind, sbBeta, sbCfg, resourceId, sbResp>>

\* Delete: parse d.Id(), the remote Delete; the rules then wait for
\* replication.
SB_Delete ==
    /\ sbPc = "del"
    /\ IF ~ParseResourceID(sbKind, d.id).ok
       THEN /\ SbReturn("parsing")
            /\ UNCHANGED sbCalls
       ELSE \/ /\ sbCalls' = Append(sbCalls, <<"Delete", "error">>)
               /\ SbReturn("deleting")
            \/ /\ sbCalls' = Append(sbCalls, <<"Delete", "ok">>)
               /\ IF sbKind = "subscription" THEN SbReturn("")
                  ELSE sbPc' = "del_wait" /\ UNCHANGED sbErr
    /\ UNCHANGED <<sbKind, sbBeta, sbCfg, d, resourceId, sbOp, sbResp>>

SB_DeleteWait ==
    /\ sbPc = "del_wait"
    /\ \/ /\ sbCalls' = Append(sbCalls, <<"WaitForReplication", "error">>)
          /\ SbReturn("waiting for replication")
       \/ /\ sbCalls' = Append(sbCalls, <<"WaitForReplication", "ok">>)
          /\ SbReturn("")
    /\ UNCHANGED <<sbKind, sbBeta, sbCfg, d, resourceId, sbOp, sbResp>>

\* The handler has returned.  After a Delete without error Terraform drops
\* the resource from state; a resource with no ID is not in state.
SB_Returned ==
    /\ sbPc = "done"
    /\ sbPc' = "idle"
    /\ d' = IF (sbOp = "delete" /\ sbErr = "") \/ d.id = NoId
            THEN [id |-> NoId, isNew |-> FALSE, st |-> NoAttrs]
            ELSE d
    /\ UNCHANGED <<sbKind, sbBeta, sbCfg, resourceId, sbOp, sbCalls, sbErr,
                   sbResp>>

InitSB ==
    /\ sbKind \in Kinds
    /\ sbBeta \in BOOLEAN
    /\ sbCfg \in SchemaAccepts(sbKind, sbBeta)
    /\ d = [id |-> NoId, isNew |-> FALSE, st |-> NoAttrs]
    /\ resourceId = ZeroResourceId
    /\ sbOp = "none"
    /\ sbPc = "idle"
    /\ sbCalls = <<>>
    /\ sbErr = ""
    /\ sbResp = ""

NextSB ==
    \/ SB_StartCreate /\ UNCHANGED <<cacheVars, faVars, kcVars>>
    \/ SB_StartUpdate /\ UNCHANGED <<cacheVars, faVars, kcVars>>
    \/ SB_ResourceId /\ UNCHANGED <<cacheVars, faVars, kcVars>>
    \/ SB_ExistenceCheck /\ UNCHANGED <<cacheVars, faVars, kcVars>>
    \/ SB_CreateOrUpdate /\ UNCHANGED <<cacheVars, faVars, kcVars>>
    \/ SB_WaitForReplication /\ UNCHANGED <<cacheVars, faVars, kcVars>>
    \/ SB_StartRead /\ UNCHANGED <<cacheVars, faVars, kcVars>>
    \/ SB_ReadGet /\ UNCHANGED <<cacheVars, faVars, kcVars>>
    \/ SB_ReadListKeys /\ UNCHANGED <<cacheVars, faVars, kcVars>>
    \/ SB_StartDelete /\ UNCHANGED <<cacheVars, faVars, kcVars>>
    \/ SB_Delete /\ UNCHANGED <<cacheVars, faVars, kcVars>>
    \/ SB_DeleteWait /\ UNCHANGED <<cacheVars, faVars, kcVars>>
    \/ SB_Returned /\ UNCHANGED <<cacheVars, faVars, kcVars>>


\* ------------------------------------------------------------------------
\* Service Bus handlers: properties
\* ------------------------------------------------------------------------

\* The names of the remote calls made so far.
Called == {sbCalls[i][1] : i \in 1..Len(sbCalls)}

\* C3: create/update of a new resource whose existence check does not answer
\* not-found returns an error ("already exists" when the Get succeeded),
\* calls no CreateOrUpdate and sets no ID; an update skips the check and
\* calls CreateOrUpdate.
C3_ExistenceCheckGuardsCreate ==
    /\ (sbOp = "create" /\ sbCalls # <<>>)
         => /\ sbPc # "idle" => d.isNew
            /\ sbCalls[1][1] = "Get"
            /\ sbCalls[1][2] # "notfound"
                 => /\ sbPc \in {"done", "idle"}
                    /\ sbErr # ""
                    /\ sbCalls[1][2] = "found" => sbErr = "already exists"
                    /\ "CreateOrUpdate" \notin Called
                    /\ d.id = NoId
    /\ (sbOp = "update" /\ sbCalls # <<>>)
         => /\ ~d.isNew
            /\ sbCalls[1][1] = "CreateOrUpdate"
    /\ (sbOp = "update" /\ sbPc \in {"done", "idle"})
         => "CreateOrUpdate" \in Called

C3_Witness ==
    /\ sbOp = "create"
    /\ sbPc = "done"
    /\ sbCalls = <<(<<"Get", "found">>)>>
    /\ sbErr = "already exists"
    /\ d.id = NoId

\* C4: Read on a not-found answer clears the ID, returns no error and writes
\* no other attribute; on another error of the Get it returns the error and
\* leaves the ID as it was.
C4_ReadNotFoundAndError ==
    [][(sbPc = "rd_get" /\ sbCalls' # sbCalls)
         => LET answer == sbCalls'[Len(sbCalls')][2] IN
            /\ answer = "notfound"
                 => /\ d'.id = NoId
                    /\ d'.st = d.st
                    /\ sbPc' = "done"
                    /\ sbErr' = ""
            /\ answer = "error"
                 => /\ d'.id = d.id
                    /\ d'.id # NoId
                    /\ sbPc' = "done"
                    /\ sbErr' # ""
      ]_vars

C4_Witness ==
    /\ sbOp = "read"
    /\ sbPc = "done"
    /\ sbCalls = <<(<<"Get", "notfound">>)>>
    /\ d.id = NoId
    /\ d.st # NoAttrs
    /\ sbErr = ""

\* C11: for the subscription and the topic rule with topic_id configured,
\* create/update builds the resource ID from the subscription, resource
\* group, namespace and topic of topic_id plus name, never from the
\* provider's own subscription; a Read that found the resource sets name to
\* the last segment of the ID and topic_id to the topic ID made of the ID's
\* leading segments, so that after create and Read both are as configured.
C11_TopicIdRoundTrip ==
    sbKind \in {"subscription", "topic_rule"}
      => /\ (sbOp \in {"create", "update"} /\ sbCfg.parent # NoId
                /\ sbPc # "cu_id")
              => /\ resourceId =
                      NewResourceID(sbCfg.parent[2], sbCfg.parent[4],
                                    sbCfg.parent[8], sbCfg.parent[10],
                                    sbCfg.name)
                 /\ resourceId.SubscriptionId # ProviderSubscription
         /\ (sbOp \in {"create", "update", "read"} /\ sbPc = "done"
                /\ sbErr = "" /\ d.id # NoId)
              => /\ d.st.name = d.id[Len(d.id)]
                 /\ d.st.parent = SubSeq(d.id, 1, 10)
                 /\ sbCfg.parent # NoId
                      => /\ d.st.parent = sbCfg.parent
                         /\ d.st.name = sbCfg.name

C11_Witness ==
    /\ sbKind = "topic_rule"
    /\ sbOp = "create"
    /\ sbPc = "done"
    /\ sbErr = ""
    /\ sbCfg.parent # NoId
    /\ d.id # NoId
    /\ d.st.parent = sbCfg.parent
    /\ d.st.name = sbCfg.name

\* C12: create/update of the namespace rule and the topic rule sets the ID
\* after CreateOrUpdateAuthorizationRule succeeded and before the wait for
\* replication: a failed CreateOrUpdate returns an error and leaves the ID
\* as it was (unset in a create); the wait starts with the ID set, and a
\* failed wait returns an error with the ID kept; the handler's Read starts
\* only from a wait that succeeded.
C12_SetIdBetweenPutAndWait ==
    [][(sbKind \in {"namespace_rule", "topic_rule"}
          /\ sbOp' \in {"create", "update"})
         => LET answer == sbCalls'[Len(sbCalls')][2] IN
            /\ sbPc = "cu_put"
                 => /\ "WaitForReplication" \notin Called
                    /\ d.isNew => d.id = NoId
                    /\ answer = "error"
                         => /\ d'.id = d.id
                            /\ sbPc' = "done"
                            /\ sbErr' # ""
                    /\ answer = "ok"
                         => /\ d'.id = ResourceIdString(sbKind, resourceId)
                            /\ d'.id # NoId
                            /\ sbPc' = "cu_wait"
                            /\ sbCalls' =
                                 Append(sbCalls, <<"CreateOrUpdate", "ok">>)
            /\ sbPc = "cu_wait"
                 => /\ d.id = ResourceIdString(sbKind, resourceId)
                    /\ d'.id = d.id
                    /\ answer = "error"
                         => /\ sbPc' = "done"
                            /\ sbErr' # ""
                    /\ answer = "ok" => sbPc' = "rd_get"
            /\ (sbPc # "rd_get" /\ sbPc' = "rd_get")
                 => /\ sbPc = "cu_wait"
                    /\ sbCalls'[Len(sbCalls')] = <<"WaitForReplication", "ok">>
      ]_vars

C12_Witness ==
    /\ sbKind = "namespace_rule"
    /\ sbOp = "create"
    /\ sbPc = "done"
    /\ Len(sbCalls) = 3
    /\ sbCalls[2] = <<"CreateOrUpdate", "ok">>
    /\ sbCalls[3] = <<"WaitForReplication", "error">>
    /\ sbErr = "waiting for replication"
    /\ d.id = ResourceIdString(sbKind, resourceId)

\* C30: create/update never calls the remote API with an empty resource
\* group, namespace, topic or resource name: for every configuration the
\* schema accepts, in 3.0-beta mode and outside it, the resource ID the calls
\* are made with is complete.
C30_CompleteResourceId ==
    (sbOp \in {"create", "update"} /\ sbCalls # <<>>)
        => /\ resourceId.ResourceGroup # ""
           /\ resourceId.NamespaceName # ""
           /\ resourceId.Name # ""
           /\ sbKind # "namespace_rule" => resourceId.TopicName # ""

\* ------------------------------------------------------------------------
\* azurerm_linux_function_app_on_container: values
\* ------------------------------------------------------------------------
\* Go pointers and the schema's lists of at most one block are sequences of
\* length at most one: <<>> is nil (no block), <<v>> points to v.  The strings
\* the code takes apart (registry server, image, LinuxFxVersion) are
\* sequences of tokens, "" being <<>>; a Go map is a function.

\* ResourceType's single instance: its name, group and environment.
FaName == "app"

FaResourceGroup == "rg"

FaEnvironmentId == "/subscriptions/sub1/resourceGroups/rg/providers/Microsoft.App/managedEnvironments/env"

\* parse.NewFunctionAppID(subscriptionId, ResourceGroup, Name).ID()
NewFunctionAppID(group, name) == <<"sites", group, name>>

\* An ID parse.FunctionAppID rejects.
BadFunctionAppId == <<"notasite">>

\* The state's ID when the resource is not in state.
NoFaId == <<>>

\* parse.FunctionAppID: the group and site name of an ID, or an error.
FunctionAppID(id) ==
    IF Len(id) = 3 /\ id[1] = "sites"
    THEN [err |-> "", ResourceGroup |-> id[2], SiteName |-> id[3]]
    ELSE [err |-> "parsing", ResourceGroup |-> "", SiteName |-> ""]

\* The kind Create puts in the site envelope.
FunctionAppOnContainerKind == "functionapp,linux,container,azurecontainerapps"

\* metadata.Client.Account.Environment.Storage.DomainSuffix()
StorageDomainSuffix == "core.windows.net"

\* helpers.StorageStringFmtKV filled in.
StorageStringFmtKV(secretId) ==
    <<"@Microsoft.KeyVault(SecretUri=", secretId, ")">>

\* helpers.StorageStringFmt filled in.
StorageStringFmt(accountName, accountKey, suffix) ==
    <<"DefaultEndpointsProtocol=https;AccountName=", accountName,
      ";AccountKey=", accountKey, ";EndpointSuffix=", suffix>>

\* A string setting's value as the app settings hold it.
Str(s) == <<s>>

\* The registry servers, images and other argument values of the configurations.
Servers == {<<"docker.io">>, <<"https://", "docker.io">>, <<"reg.io", "/", "team">>}

Images == {<<"img:1">>, <<"org", "/", "img:2">>}

Versions == {"~4", "~3"}

\* registry blocks: registry_server_url with username and password, any of
\* the last two possibly left out.
RegistryBlocks ==
    [registry_server_url : Servers,
     registry_username : {"", "user"},
     registry_password : {"", "secret"}]

\* site_config blocks, ftps_state and use_32_bit_worker at their defaults or set.
SiteConfigBlocks ==
    { [application_insights_connection_string |-> "",
       use_32_bit_worker |-> FALSE, ftps_state |-> "Disabled"],
      [application_insights_connection_string |-> "InstrumentationKey=1",
       use_32_bit_worker |-> TRUE, ftps_state |-> "FtpsOnly"] }

\* app_settings maps; a value is the sequence of the parts of its string.
UserAppSettings == {<<>>, [k \in {"WEBSITE_X"} |-> <<"x">>]}

\* tags maps, each written as one word: none, the tags a configuration may
\* name, and tags somebody else put on the app.
NoTags == ""

ConfiguredTags == "env=prod"

OtherTags == "env=dev"

\* The configurations a user can write: every argument of Arguments() with a
\* value, an empty string or no block, defaults filled in.
RawConfigs ==
    [name : {FaName},
     resource_group_name : {FaResourceGroup},
     container_app_environment_id : {FaEnvironmentId},
     storage_account_name : {"", "sa"},
     storage_account_access_key : {"", "key"},
     storage_key_vault_secret_id : {"", "https://kv/secrets/s"},
     builtin_logging_enabled : BOOLEAN,
     functions_extension_version : Versions,
     app_settings : UserAppSettings,
     registry : {<<r>> : r \in RegistryBlocks},
     container_image : Images,
     site_config : {<<>>} \cup {<<s>> : s \in SiteConfigBlocks},
     tags : {NoTags, ConfiguredTags}]

\* The configurations a resource starts with: functions_extension_version
\* at its default, the first image and registry server, no tags and no
\* app_settings; later edits change them too.
InitialConfigs ==
    {c \in RawConfigs :
        /\ c.functions_extension_version = "~4"
        /\ c.tags = NoTags
        /\ c.app_settings = <<>>
        /\ c.container_image = <<"img:1">>
        /\ c.registry[1].registry_server_url = <<"https://", "docker.io">>}

\* RegistrySchemaLinuxFunctionAppOnContainer: one block, the server not
\* empty, username and password each requiring the other.
RegistrySchemaLinuxFunctionAppOnContainer(registry) ==
    /\ Len(registry) = 1
    /\ registry[1].registry_server_url # <<>>
    /\ (registry[1].registry_username # "") <=> (registry[1].registry_password # "")

\* SiteConfigSchemaLinuxFunctionAppOnContainer: Optional, MaxItems 1, a
\* connection string that is given is not empty, ftps_state one of three.
SiteConfigSchemaLinuxFunctionAppOnContainer(site_config) ==
    /\ Len(site_config) <= 1
    /\ \A i \in 1..Len(site_config) :
          site_config[i].ftps_state \in {"AllAllowed", "Disabled", "FtpsOnly"}

\* Arguments(): whether the schema accepts configuration c.  ExactlyOneOf of
\* storage_account_name and storage_key_vault_secret_id; the access key
\* ConflictsWith the secret id; registry and container_image Required.
Arguments(c) ==
    /\ (c.storage_account_name # "") # (c.storage_key_vault_secret_id # "")
    /\ ~(c.storage_account_access_key # "" /\ c.storage_key_vault_secret_id # "")
    /\ RegistrySchemaLinuxFunctionAppOnContainer(c.registry)
    /\ c.container_image # <<>>
    /\ SiteConfigSchemaLinuxFunctionAppOnContainer(c.site_config)

\* Attributes() and Arguments() with nothing set: the state of a resource
\* that was imported, or not created yet.
NoFaAttrs ==
    [name |-> "", resource_group_name |-> "", container_app_environment_id |-> "",
     storage_account_name |-> "", storage_account_access_key |-> "",
     storage_key_vault_secret_id |-> "", builtin_logging_enabled |-> FALSE,
     functions_extension_version |-> "", app_settings |-> <<>>,
     registry |-> <<>>, container_image |-> <<>>, site_config |-> <<>>,
     tags |-> NoTags,
     kind |-> "", default_hostname |-> "", outbound_ip_addresses |-> ""]

\* The arguments of the resource, as opposed to its computed attributes.
ArgumentNames ==
    {"name", "resource_group_name", "container_app_environment_id",
     "storage_account_name", "storage_account_access_key",
     "storage_key_vault_secret_id", "builtin_logging_enabled",
     "functions_extension_version", "app_settings", "registry",
     "container_image", "site_config", "tags"}

\* The state Terraform keeps when a handler wrote no attribute: the planned
\* values of the arguments, the computed attributes unset.
PlannedState(c) ==
    [a \in DOMAIN NoFaAttrs |-> IF a \in ArgumentNames THEN c[a] ELSE NoFaAttrs[a]]

\* ------------------------------------------------------------------------
\* azurerm_linux_function_app_on_container: helpers
\* ------------------------------------------------------------------------

\* The index of the first pair of the list named name, 0 if there is none.
IndexOfSetting(input, name) ==
    IF \E i \in 1..Len(input) : input[i].Name = name
    THEN CHOOSE i \in 1..Len(input) :
            /\ input[i].Name = name
            /\ \A j \in 1..(i - 1) : input[j].Name # name
    ELSE 0

\* updateOrAppendAppSettings: the first pair named name is replaced, or with
\* remove overwritten by the last pair and the list cut by one; without such
\* a pair the new pair is appended unless remove.
updateOrAppendAppSettings(input, name, value, remove) ==
    LET k == IndexOfSetting(input, name)
    IN  IF k # 0
        THEN IF remove
             THEN SubSeq([input EXCEPT ![k] = input[Len(input)]], 1, Len(input) - 1)
             ELSE [input EXCEPT ![k] = [Name |-> name, Value |-> value]]
        ELSE IF remove
             THEN input
             ELSE Append(input, [Name |-> name, Value |-> value])

\* The value of the setting named name as a pointer: <<>> if there is none.
SettingValue(input, name) ==
    LET k == IndexOfSetting(input, name)
    IN  IF k = 0 THEN <<>> ELSE <<input[k].Value>>

\* The orders in which Go may range over the keys of a map.
RangeOrders(m) ==
    {o \in [1..Cardinality(DOMAIN m) -> DOMAIN m] :
        \A i, j \in DOMAIN o : i # j => o[i] # o[j]}

RECURSIVE MergeInOrder(_, _, _)
MergeInOrder(combined, userSettings, order) ==
    IF order = <<>>
    THEN combined
    ELSE MergeInOrder(
            updateOrAppendAppSettings(combined, Head(order),
                                      userSettings[Head(order)], FALSE),
            userSettings, Tail(order))

\* helpers.MergeUserAppSettings(systemSettings, userSettings), the map
\* ranged over in the given order: the user's settings win.
MergeUserAppSettings(systemSettings, userSettings, order) ==
    IF DOMAIN userSettings = {}
    THEN systemSettings
    ELSE <<MergeInOrder(systemSettings[1], userSettings, order)>>

\* strings.TrimPrefix on token sequences.
TrimPrefix(s, prefix) ==
    IF Len(s) > 0 /\ s[1] = prefix THEN Tail(s) ELSE s

\* helpers.EncodeLinuxFunctionAppOnContainerLinuxFxVersion(input, image):
\* a pointer to "DOCKER|<server without https:// and http://>/<image>".
EncodeLinuxFunctionAppOnContainerLinuxFxVersion(input, image) ==
    IF Len(input) = 0
    THEN <<(<<>>)>>
    ELSE LET dockerUrl ==
                 TrimPrefix(TrimPrefix(input[1].registry_server_url, "https://"),
                            "http://")
         IN  <<(<<"DOCKER", "|">> \o dockerUrl \o <<"/">> \o image)>>

\* strings.Split(s, sep): the parts of s between the separators.
RECURSIVE Split(_, _)
Split(s, sep) ==
    IF \A i \in 1..Len(s) : s[i] # sep
    THEN <<s>>
    ELSE LET k == CHOOSE i \in 1..Len(s) :
                     s[i] = sep /\ \A j \in 1..(i - 1) : s[j] # sep
         IN  <<SubSeq(s, 1, k - 1)>> \o Split(SubSeq(s, k + 1, Len(s)), sep)

\* strings.Index(s, tok) counted from 1: 0 when tok is not in s.
Index(s, tok) ==
    IF \E i \in 1..Len(s) : s[i] = tok
    THEN CHOOSE i \in 1..Len(s) : s[i] = tok /\ \A j \in 1..(i - 1) : s[j] # tok
    ELSE 0

\* helpers.DecodeLinuxFunctionAppOnContainerLinuxFxVersion(input): parts[1]
\* is read before the number of parts is looked at.
DecodeLinuxFunctionAppOnContainerLinuxFxVersion(input) ==
    IF input = <<>>
    THEN [value |-> <<>>, err |-> "", panic |-> FALSE]
    ELSE LET parts == Split(input[1], "|")
         IN  IF Len(parts) < 2
             THEN [value |-> <<>>, err |-> "", panic |-> TRUE]
             ELSE IF Len(parts) # 2 \/ parts[1] # <<"DOCKER">>
             THEN [value |-> <<>>, err |-> "unrecognised LinuxFxVersion format",
                   panic |-> FALSE]
             ELSE [value |-> SubSeq(parts[2], Index(parts[2], "/") + 1, Len(parts[2])),
                   err |-> "", panic |-> FALSE]

\* The connection string always of the account form.
StorageString_AlwaysAccount(m) ==
    StorageStringFmt(m.storage_account_name, m.storage_account_access_key,
                     StorageDomainSuffix)

\* Create's and Update's storageString for the decoded model m.
StorageString(m) ==
    IF m.storage_key_vault_secret_id # ""
    THEN StorageStringFmtKV(m.storage_key_vault_secret_id)
    ELSE StorageStringFmt(m.storage_account_name, m.storage_account_access_key,
                          StorageDomainSuffix)

\* webapps.SiteConfig{}: every field nil.
EmptySiteConfig ==
    [LinuxFxVersion |-> <<>>, AppSettings |-> <<>>, FtpsState |-> <<>>,
     Use32BitWorkerProcess |-> <<>>]

\* The app settings Expand builds, with the connection string setting
\* written also when it is empty.
ExpandAppSettings_KeepEmptyInsights(siteConfig, existing, registry, version, storageString) ==
    LET s0 == IF existing # <<>> /\ existing[1].AppSettings # <<>>
              THEN existing[1].AppSettings[1] ELSE <<>>
        s1 == updateOrAppendAppSettings(s0, "FUNCTIONS_EXTENSION_VERSION", Str(version), FALSE)
        s2 == updateOrAppendAppSettings(s1, "AzureWebJobsStorage", storageString, FALSE)
        s3 == updateOrAppendAppSettings(s2, "APPLICATIONINSIGHTS_CONNECTION_STRING",
                     Str(siteConfig[1].application_insights_connection_string), FALSE)
        s4 == updateOrAppendAppSettings(s3, "DOCKER_REGISTRY_SERVER_URL",
                     registry.registry_server_url, FALSE)
        s5 == IF registry.registry_username # ""
              THEN updateOrAppendAppSettings(s4, "DOCKER_REGISTRY_SERVER_USERNAME",
                                             Str(registry.registry_username), FALSE)
              ELSE s4
    IN  IF registry.registry_password # ""
        THEN updateOrAppendAppSettings(s5, "DOCKER_REGISTRY_SERVER_PASSWORD",
                                       Str(registry.registry_password), FALSE)
        ELSE s5

\* The app settings ExpandSiteConfigLinuxFunctionAppOnContainer builds for a
\* site_config of one block: existing's settings, then one
\* updateOrAppendAppSettings per setting.
ExpandAppSettings(siteConfig, existing, registry, version, storageString) ==
    LET s0 == IF existing # <<>> /\ existing[1].AppSettings # <<>>
              THEN existing[1].AppSettings[1] ELSE <<>>
        s1 == updateOrAppendAppSettings(s0, "FUNCTIONS_EXTENSION_VERSION", Str(version), FALSE)
        s2 == updateOrAppendAppSettings(s1, "AzureWebJobsStorage", storageString, FALSE)
        s3 == IF siteConfig[1].application_insights_connection_string = ""
              THEN updateOrAppendAppSettings(s2, "APPLICATIONINSIGHTS_CONNECTION_STRING",
                       Str(siteConfig[1].application_insights_connection_string), TRUE)
              ELSE updateOrAppendAppSettings(s2, "APPLICATIONINSIGHTS_CONNECTION_STRING",
                       Str(siteConfig[1].application_insights_connection_string), FALSE)
        s4 == updateOrAppendAppSettings(s3, "DOCKER_REGISTRY_SERVER_URL",
                     registry.registry_server_url, FALSE)
        s5 == IF registry.registry_username # ""
              THEN updateOrAppendAppSettings(s4, "DOCKER_REGISTRY_SERVER_USERNAME",
                                             Str(registry.registry_username), FALSE)
              ELSE s4
    IN  IF registry.registry_password # ""
        THEN updateOrAppendAppSettings(s5, "DOCKER_REGISTRY_SERVER_PASSWORD",
                                       Str(registry.registry_password), FALSE)
        ELSE s5

\* helpers.ExpandSiteConfigLinuxFunctionAppOnContainer: nil for no
\* site_config block; else existing itself (or a new SiteConfig when existing
\* is nil) with LinuxFxVersion emptied, the app settings, FtpsState when
\* site_config.0.ftps_state changed, and Use32BitWorkerProcess.
ExpandSiteConfigLinuxFunctionAppOnContainer(siteConfig, existing, ftpsChanged, registry, version, storageString) ==
    IF Len(siteConfig) = 0
    THEN <<>>
    ELSE LET expanded == IF existing # <<>>
                         THEN [existing[1] EXCEPT !.LinuxFxVersion = <<(<<>>)>>]
                         ELSE EmptySiteConfig
         IN  <<[expanded EXCEPT
                  !.AppSettings = <<ExpandAppSettings(siteConfig, existing, registry,
                                                      version, storageString)>>,
                  !.FtpsState = IF ftpsChanged THEN <<siteConfig[1].ftps_state>> ELSE @,
                  !.Use32BitWorkerProcess = <<siteConfig[1].use_32_bit_worker>>]>>

\* helpers.FlattenSiteConfigLinuxFunctionAppOnContainer of a non-nil SiteConfig.
FlattenSiteConfigLinuxFunctionAppOnContainer(functionAppOnContainer) ==
    [application_insights_connection_string |-> "",
     use_32_bit_worker |-> IF functionAppOnContainer.Use32BitWorkerProcess = <<>>
                           THEN FALSE
                           ELSE functionAppOnContainer.Use32BitWorkerProcess[1],
     ftps_state |-> IF functionAppOnContainer.FtpsState = <<>>
                    THEN "" ELSE functionAppOnContainer.FtpsState[1]]

\* The names unpackLinuxFunctionAppOnContainerAppSettings keeps out of
\* app_settings.
UnpackedNames ==
    {"FUNCTIONS_EXTENSION_VERSION", "DOCKER_REGISTRY_SERVER_URL",
     "DOCKER_REGISTRY_SERVER_USERNAME", "DOCKER_REGISTRY_SERVER_PASSWORD",
     "APPLICATIONINSIGHTS_CONNECTION_STRING", "AzureWebJobsStorage"}

\* helpers.ParseWebJobsStorageString: the account name and key of a
\* connection string of the account form, two empty strings otherwise.
ParseWebJobsStorageString(v) ==
    IF Len(v) = 6 /\ v[1] = "DefaultEndpointsProtocol=https;AccountName="
    THEN <<v[2], v[4]>>
    ELSE <<"", "">>

\* unpackLinuxFunctionAppOnContainerAppSettings(input) on model m: input is
\* the pointer to the Properties map of the app settings response.
unpackLinuxFunctionAppOnContainerAppSettings(m, input) ==
    IF input = <<>>
    THEN m
    ELSE LET p == input[1]
             has(k) == k \in DOMAIN p
             isKV == /\ has("AzureWebJobsStorage")
                     /\ Len(p["AzureWebJobsStorage"]) > 0
                     /\ p["AzureWebJobsStorage"][1] = "@Microsoft.KeyVault(SecretUri="
             isAccount == has("AzureWebJobsStorage") /\ ~isKV
         IN  [m EXCEPT
                !.builtin_logging_enabled = FALSE,
                !.functions_extension_version =
                    IF has("FUNCTIONS_EXTENSION_VERSION")
                    THEN p["FUNCTIONS_EXTENSION_VERSION"][1] ELSE @,
                !.site_config =
                    IF has("APPLICATIONINSIGHTS_CONNECTION_STRING")
                    THEN <<[@[1] EXCEPT !.application_insights_connection_string =
                                p["APPLICATIONINSIGHTS_CONNECTION_STRING"][1]]>>
                    ELSE @,
                !.storage_key_vault_secret_id =
                    IF isKV THEN p["AzureWebJobsStorage"][2] ELSE @,
                !.storage_account_name =
                    IF isAccount
                    THEN ParseWebJobsStorageString(p["AzureWebJobsStorage"])[1] ELSE @,
                !.storage_account_access_key =
                    IF isAccount
                    THEN ParseWebJobsStorageString(p["AzureWebJobsStorage"])[2] ELSE @,
                !.app_settings = [k \in (DOMAIN p) \ UnpackedNames |-> p[k]]]

\* The app settings list as the dictionary ListApplicationSettings answers.
SettingsDictionary(list) ==
    [k \in {list[i].Name : i \in 1..Len(list)} |-> SettingValue(list, k)[1]]

\* ------------------------------------------------------------------------
\* azurerm_linux_function_app_on_container: handlers
\* ------------------------------------------------------------------------

\* The schema-accepted configurations.
AcceptedConfigs == {c \in RawConfigs : Arguments(c)}

\* The arguments of c and x that differ.
ChangedArguments(c, x) == {a \in ArgumentNames : c[a] # x[a]}

\* The groups of arguments one edit of the configuration touches.
EditGroups ==
    { {"storage_account_name", "storage_account_access_key",
       "storage_key_vault_secret_id"},
      {"builtin_logging_enabled"}, {"functions_extension_version"},
      {"app_settings"}, {"registry"}, {"container_image"}, {"site_config"},
      {"tags"} }

\* The accepted configurations one edit away from c: one group of arguments
\* differs, of the registry the server or the credentials.
Edits(c) ==
    {x \in AcceptedConfigs :
        /\ x # c
        /\ \E g \in EditGroups : ChangedArguments(c, x) \subseteq g
        /\ \/ x.registry[1].registry_server_url = c.registry[1].registry_server_url
           \/ x.registry[1].registry_username = c.registry[1].registry_username}

\* metadata.Decode: the typed model of a configuration.
DecodeModel(c) == [a \in ArgumentNames |-> c[a]]

\* LinuxFunctionAppOnContainerModel{}.
NoModel == [a \in ArgumentNames |-> NoFaAttrs[a]]

\* A handler's locals before it assigned any.
NoLocal ==
    [model |-> NoModel, storageString |-> <<>>, siteConfig |-> <<>>,
     siteEnvelope |-> <<>>, existing |-> <<>>, appSettingsResp |-> <<>>,
     configResp |-> <<>>]

\* The ftps_state of a site_config list, "" without a block.
FtpsStateOf(site_config) ==
    IF site_config = <<>> THEN "" ELSE site_config[1].ftps_state

\* metadata.ResourceData.HasChange(key): state against configuration.
HasChange(key) ==
    IF key = "site_config.0.ftps_state"
    THEN FtpsStateOf(faState.attrs.site_config) # FtpsStateOf(faCfg.site_config)
    ELSE faState.attrs[key] # faCfg[key]

\* A handler returns err.
FaReturn(err) ==
    /\ faErr' = err
    /\ faPc' = "done"

\* A handler panics: the provider process is gone.
FaPanic ==
    /\ faErr' = "panic"
    /\ faPc' = "panic"

FaCall(name, answer) == faCalls' = Append(faCalls, <<name, answer>>)

\* Terraform validates the configuration against Arguments().
FA_Validate ==
    /\ faPc = "config"
    /\ faPc' = IF Arguments(faCfg) THEN "idle" ELSE "rejected"
    /\ UNCHANGED <<faCfg, faState, faSite, faOp, faCalls, faErr, faLocal, faSent,
                   faUpdates, faCreated, faImported>>

\* Create, lines 177-191: the domain suffix, Decode, the ID.
FA_StartCreate ==
    /\ faPc = "idle"
    /\ faState.id = NoFaId
    /\ faOp' = "create"
    /\ faCalls' = <<>>
    /\ faSent' = <<>>
    /\ faImported' = FALSE
    /\ \E ok \in BOOLEAN :
          IF ~ok
          THEN FaReturn("could not determine Storage domain suffix")
               /\ faLocal' = NoLocal
          ELSE /\ faLocal' = [NoLocal EXCEPT !.model = DecodeModel(faCfg)]
               /\ faPc' = "c_exists"
               /\ faErr' = ""
    /\ UNCHANGED <<faCfg, faState, faSite, faUpdates, faCreated>>

\* An existence check that lets a found app through.
CreateExistenceError_NoImport(answer) ==
    IF answer = "error" THEN "checking for presence of existing" ELSE ""

\* The error of Create's existence check given the Get's answer, "" to go on.
CreateExistenceError(answer) ==
    IF answer = "error" THEN "checking for presence of existing"
    ELSE IF answer # "notfound" THEN "requires import"
    ELSE ""

\* Create, lines 193-200: client.Get of the site to create.
FA_CreateExistenceCheck ==
    /\ faPc = "c_exists"
    /\ \E answer \in (IF faSite = <<>> THEN {"notfound"} ELSE {"found"}) \cup {"error"} :
          /\ FaCall("Get", answer)
          /\ IF CreateExistenceError(answer) # ""
             THEN FaReturn(CreateExistenceError(answer))
             ELSE faPc' = "c_env" /\ faErr' = faErr
    /\ UNCHANGED <<faCfg, faState, faSite, faOp, faLocal, faSent, faUpdates,
                   faCreated, faImported>>

\* Create, lines 207-215: the container app environment is read.
FA_CreateEnvironment ==
    /\ faPc = "c_env"
    /\ \E answer \in {"ok", "error"} :
          /\ FaCall("ManagedEnvironmentGet", answer)
          /\ IF answer = "error"
             THEN FaReturn("reading environment")
             ELSE faPc' = "c_name" /\ faErr' = faErr
    /\ UNCHANGED <<faCfg, faState, faSite, faOp, faLocal, faSent, faUpdates,
                   faCreated, faImported>>

\* Create, lines 217-223: the name availability check.  The answer's
\* NameAvailable is a pointer: true, false or nil ("unknown"); only false
\* stops the handler.
FA_CreateCheckName ==
    /\ faPc = "c_name"
    /\ \E answer \in {"available", "unknown", "taken", "error"} :
          /\ FaCall("CheckNameAvailability", answer)
          /\ IF answer = "error"
             THEN FaReturn("checking name availability")
             ELSE IF answer = "taken"
             THEN FaReturn("the Site Name failed the availability check")
             ELSE faPc' = "c_expand" /\ faErr' = faErr
    /\ UNCHANGED <<faCfg, faState, faSite, faOp, faLocal, faSent, faUpdates,
                   faCreated, faImported>>

\* The model's app settings after lines 233-238.
WithDashboard(m, storageString) ==
    IF m.builtin_logging_enabled
    THEN [k \in (DOMAIN m.app_settings) \cup {"AzureWebJobsDashboard"} |->
             IF k = "AzureWebJobsDashboard" THEN storageString ELSE m.app_settings[k]]
    ELSE m.app_settings

\* Create, lines 226-240: the storage string, the dashboard setting, Expand
\* with no existing site config.
FA_CreateExpand ==
    /\ faPc = "c_expand"
    /\ LET m == faLocal.model
           storageString == StorageString(m)
       IN  faLocal' = [faLocal EXCEPT
               !.storageString = storageString,
               !.model.app_settings = WithDashboard(m, storageString),
               !.siteConfig = ExpandSiteConfigLinuxFunctionAppOnContainer(
                                  m.site_config, <<>>, HasChange("site_config.0.ftps_state"),
                                  m.registry[1], m.functions_extension_version,
                                  storageString)]
    /\ faPc' = "c_envelope"
    /\ UNCHANGED <<faCfg, faState, faSite, faOp, faCalls, faErr, faSent, faUpdates,
                   faCreated, faImported>>

\* Create, lines 241-252: siteConfig is dereferenced whether nil or not;
\* LinuxFxVersion, the envelope, the merge of the user's app settings.
FA_CreateEnvelope ==
    /\ faPc = "c_envelope"
    /\ LET m == faLocal.model
       IN  IF faLocal.siteConfig = <<>>
           THEN FaPanic /\ faLocal' = faLocal
           ELSE \E order \in RangeOrders(m.app_settings) :
                  LET merged == [faLocal.siteConfig[1] EXCEPT
                                   !.LinuxFxVersion =
                                       EncodeLinuxFunctionAppOnContainerLinuxFxVersion(
                                           m.registry, m.container_image),
                                   !.AppSettings =
                                       MergeUserAppSettings(@, m.app_settings, order)]
                  IN  /\ faLocal' = [faLocal EXCEPT
                            !.siteConfig = <<merged>>,
                            !.siteEnvelope =
                                <<[Tags |-> m.tags,
                                   Kind |-> FunctionAppOnContainerKind,
                                   ManagedEnvironmentID |-> m.container_app_environment_id,
                                   SiteConfig |-> <<merged>>]>>]
                      /\ faPc' = "c_send"
                      /\ faErr' = faErr
    /\ UNCHANGED <<faCfg, faState, faSite, faOp, faCalls, faSent, faUpdates,
                   faCreated, faImported>>

\* Create, lines 257-260: client.CreateOrUpdate with the envelope.
FA_CreateCreateOrUpdate ==
    /\ faPc = "c_send"
    /\ faSent' = Append(faSent, faLocal.siteEnvelope[1])
    /\ \E answer \in {"ok", "error"} :
          /\ FaCall("CreateOrUpdate", answer)
          /\ IF answer = "error"
             THEN FaReturn("creating") /\ faSite' = faSite
             ELSE /\ faSite' = faLocal.siteEnvelope
                  /\ faPc' = "c_wait"
                  /\ faErr' = faErr
    /\ UNCHANGED <<faCfg, faState, faOp, faLocal, faUpdates, faCreated, faImported>>

\* Create, lines 262-264: future.WaitForCompletionRef.
FA_CreateWait ==
    /\ faPc = "c_wait"
    /\ \E answer \in {"ok", "error"} :
          /\ FaCall("WaitForCompletionRef", answer)
          /\ IF answer = "error"
             THEN FaReturn("waiting for creation")
             ELSE faPc' = "c_setid" /\ faErr' = faErr
    /\ UNCHANGED <<faCfg, faState, faSite, faOp, faLocal, faSent, faUpdates,
                   faCreated, faImported>>

\* Create, lines 266-267: metadata.SetID(id); return nil.
FA_CreateSetID ==
    /\ faPc = "c_setid"
    /\ faState' = [faState EXCEPT
                     !.id = NewFunctionAppID(faLocal.model.resource_group_name,
                                             faLocal.model.name)]
    /\ FaReturn("")
    /\ UNCHANGED <<faCfg, faSite, faOp, faCalls, faLocal, faSent, faUpdates,
                   faCreated, faImported>>

\* Read, lines 276-280: the ID in state is parsed.
FA_StartRead ==
    /\ faPc = "idle"
    /\ faState.id # NoFaId
    /\ faOp' = "read"
    /\ faCalls' = <<>>
    /\ faSent' = <<>>
    /\ faLocal' = NoLocal
    /\ IF FunctionAppID(faState.id).err # ""
       THEN FaReturn(FunctionAppID(faState.id).err)
       ELSE faPc' = "r_get" /\ faErr' = ""
    /\ UNCHANGED <<faCfg, faState, faSite, faUpdates, faCreated, faImported>>

\* Read, lines 282-294: client.Get; a site that is gone leaves the state.
FA_ReadGet ==
    /\ faPc = "r_get"
    /\ \E answer \in (IF faSite = <<>> THEN {"notfound"} ELSE {"found", "noprops"})
                        \cup {"error"} :
          /\ FaCall("Get", answer)
          /\ IF answer = "notfound"
             THEN /\ faState' = [faState EXCEPT !.id = NoFaId]
                  /\ FaReturn("")
             ELSE /\ faState' = faState
                  /\ IF answer = "error" THEN FaReturn("reading")
                     ELSE IF answer = "noprops" THEN FaReturn("reading properties")
                     ELSE faPc' = "r_settings" /\ faErr' = faErr
    /\ UNCHANGED <<faCfg, faSite, faOp, faLocal, faSent, faUpdates, faCreated,
                   faImported>>

\* Read, lines 296-306: client.ListApplicationSettings; the local state
\* starts from the ID's names and the environment ID.
FA_ReadListApplicationSettings ==
    /\ faPc = "r_settings"
    /\ \E answer \in {"ok", "error"} :
          /\ FaCall("ListApplicationSettings", answer)
          /\ IF answer = "error"
             THEN FaReturn("reading App Settings") /\ faLocal' = faLocal
             ELSE /\ faLocal' = [faLocal EXCEPT
                        !.appSettingsResp =
                            IF faSite[1].SiteConfig[1].AppSettings = <<>>
                            THEN <<>>
                            ELSE <<SettingsDictionary(faSite[1].SiteConfig[1].AppSettings[1])>>,
                        !.model = [NoModel EXCEPT
                            !.name = FunctionAppID(faState.id).SiteName,
                            !.resource_group_name = FunctionAppID(faState.id).ResourceGroup,
                            !.container_app_environment_id =
                                faSite[1].ManagedEnvironmentID,
                            !.tags = faSite[1].Tags]]
                  /\ faPc' = "r_config"
                  /\ faErr' = faErr
    /\ UNCHANGED <<faCfg, faState, faSite, faOp, faSent, faUpdates, faCreated,
                   faImported>>

\* Read, lines 308-311: client.GetConfiguration.
FA_ReadGetConfiguration ==
    /\ faPc = "r_config"
    /\ \E answer \in {"ok", "error"} :
          /\ FaCall("GetConfiguration", answer)
          /\ IF answer = "error"
             THEN FaReturn("making Read request on Configuration") /\ faLocal' = faLocal
             ELSE /\ faLocal' = [faLocal EXCEPT !.configResp = faSite[1].SiteConfig]
                  /\ faPc' = "r_flatten"
                  /\ faErr' = faErr
    /\ UNCHANGED <<faCfg, faState, faSite, faOp, faSent, faUpdates, faCreated,
                   faImported>>

\* Read, lines 313-326: the local state is filled in from the answers and
\* the handler returns nil; nothing of it is written to the Terraform state.
FA_ReadFlatten ==
    /\ faPc = "r_flatten"
    /\ LET siteConfig == FlattenSiteConfigLinuxFunctionAppOnContainer(faLocal.configResp[1])
           decoded == DecodeLinuxFunctionAppOnContainerLinuxFxVersion(
                          faLocal.configResp[1].LinuxFxVersion)
       IN  IF decoded.panic
           THEN /\ FaPanic
                /\ faLocal' = [faLocal EXCEPT !.model.site_config = <<siteConfig>>]
           ELSE IF decoded.err # ""
           THEN /\ FaReturn("flattening linuxFxVersion")
                /\ faLocal' = [faLocal EXCEPT !.model.site_config = <<siteConfig>>]
           ELSE /\ FaReturn("")
                /\ faLocal' = [faLocal EXCEPT !.model =
                       unpackLinuxFunctionAppOnContainerAppSettings(
                           [faLocal.model EXCEPT !.site_config = <<siteConfig>>,
                                                 !.container_image = decoded.value],
                           faLocal.appSettingsResp)]
    /\ UNCHANGED <<faCfg, faState, faSite, faOp, faCalls, faSent, faUpdates,
                   faCreated, faImported>>

\* Update, lines 356-373: the ID in state is parsed, Partial(true), Decode.
\* Terraform calls Update for a configuration that differs from the state in
\* arguments that do not force a new resource.
FA_StartUpdate ==
    /\ faPc = "idle"
    /\ faState.id # NoFaId
    /\ faUpdates < MaxUpdates
    /\ \E c \in Edits(faCfg) \cup {faCfg} :
          /\ DecodeModel(PlannedState(c)) # DecodeModel(faState.attrs)
          /\ c.name = faState.attrs.name
          /\ faCfg' = c
          /\ IF FunctionAppID(faState.id).err # ""
             THEN FaReturn(FunctionAppID(faState.id).err) /\ faLocal' = NoLocal
             ELSE /\ faLocal' = [NoLocal EXCEPT !.model = DecodeModel(c)]
                  /\ faPc' = "u_get"
                  /\ faErr' = ""
    /\ faOp' = "update"
    /\ faCalls' = <<>>
    /\ faSent' = <<>>
    /\ faUpdates' = faUpdates + 1
    /\ UNCHANGED <<faState, faSite, faCreated, faImported>>

\* The site an answer of Update's Get carries: the site as it was last
\* written, possibly with the app settings left out of its SiteConfig, or
\* with tags somebody else has put on it since.
ExistingSite(answer) ==
    IF answer = "found without settings"
    THEN <<[faSite[1] EXCEPT !.SiteConfig[1].AppSettings = <<>>]>>
    ELSE IF answer = "found with other tags"
    THEN <<[faSite[1] EXCEPT !.Tags = OtherTags]>>
    ELSE faSite

\* Update, lines 375-378: client.Get of the existing site.
FA_UpdateGet ==
    /\ faPc = "u_get"
    /\ \E answer \in (IF faSite = <<>> THEN {}
                      ELSE {"found", "found without settings",
                            "found with other tags"}) \cup {"error"} :
          /\ FaCall("Get", answer)
          /\ IF answer = "error"
             THEN FaReturn("reading") /\ faLocal' = faLocal
             ELSE /\ faLocal' = [faLocal EXCEPT !.existing = ExistingSite(answer)]
                  /\ faPc' = "u_expand"
                  /\ faErr' = faErr
    /\ UNCHANGED <<faCfg, faState, faSite, faOp, faSent, faUpdates, faCreated,
                   faImported>>

\* Update, lines 380-387: the storage string and Expand with the existing
\* site config.  Expand's result, when not nil, is existing.SiteConfig itself.
FA_UpdateExpand ==
    /\ faPc = "u_expand"
    /\ LET m == faLocal.model
           storageString == StorageString(m)
           siteConfig == ExpandSiteConfigLinuxFunctionAppOnContainer(
                             m.site_config, faLocal.existing[1].SiteConfig,
                             HasChange("site_config.0.ftps_state"),
                             m.registry[1], m.functions_extension_version, storageString)
       IN  faLocal' = [faLocal EXCEPT
               !.storageString = storageString,
               !.siteConfig = siteConfig,
               !.existing = IF siteConfig # <<>> /\ faLocal.existing[1].SiteConfig # <<>>
                            THEN <<[@[1] EXCEPT !.SiteConfig = siteConfig]>>
                            ELSE @]
    /\ faPc' = "u_merge"
    /\ UNCHANGED <<faCfg, faState, faSite, faOp, faCalls, faErr, faSent, faUpdates,
                   faCreated, faImported>>

\* An Update that always sends the configured tags.
UpdateTags_AlwaysConfigured(existing, m) == m.tags

\* Update, lines 398-400: the tags of the site to send.
UpdateTags(existing, m) ==
    IF HasChange("tags") THEN m.tags ELSE existing.Tags

\* Update, lines 388-400: existing.SiteConfig, LinuxFxVersion when registry
\* or container_image changed, the merge, the tags; siteConfig.AppSettings
\* and existing.SiteConfig are dereferenced whether nil or not.
FA_UpdateMerge ==
    /\ faPc = "u_merge"
    /\ LET m == faLocal.model
           siteConfig == faLocal.siteConfig
           assigned == IF HasChange("site_config")
                       THEN siteConfig ELSE faLocal.existing[1].SiteConfig
           fxChanged == HasChange("registry") \/ HasChange("container_image")
       IN  IF siteConfig = <<>> \/ assigned = <<>>
           THEN FaPanic /\ faLocal' = faLocal
           ELSE \E order \in RangeOrders(m.app_settings) :
                  LET merged == [assigned[1] EXCEPT
                                   !.LinuxFxVersion =
                                       IF fxChanged
                                       THEN EncodeLinuxFunctionAppOnContainerLinuxFxVersion(
                                                m.registry, m.container_image)
                                       ELSE @,
                                   !.AppSettings =
                                       MergeUserAppSettings(siteConfig[1].AppSettings,
                                                            m.app_settings, order)]
                  IN  /\ faLocal' = [faLocal EXCEPT
                            !.existing =
                                <<[@[1] EXCEPT !.SiteConfig = <<merged>>,
                                               !.Tags = UpdateTags(faLocal.existing[1], m)]>>]
                      /\ faPc' = "u_send"
                      /\ faErr' = faErr
    /\ UNCHANGED <<faCfg, faState, faSite, faOp, faCalls, faSent, faUpdates,
                   faCreated, faImported>>

\* Update, lines 401-404: client.CreateOrUpdate with existing.
FA_UpdateCreateOrUpdate ==
    /\ faPc = "u_send"
    /\ faSent' = Append(faSent, faLocal.existing[1])
    /\ \E answer \in {"ok", "error"} :
          /\ FaCall("CreateOrUpdate", answer)
          /\ IF answer = "error"
             THEN FaReturn("updating") /\ faSite' = faSite
             ELSE /\ faSite' = faLocal.existing
                  /\ faPc' = "u_wait"
                  /\ faErr' = faErr
    /\ UNCHANGED <<faCfg, faState, faOp, faLocal, faUpdates, faCreated, faImported>>

\* Update, lines 405-407: updateFuture.WaitForCompletionRef.
FA_UpdateWait ==
    /\ faPc = "u_wait"
    /\ \E answer \in {"ok", "error"} :
          /\ FaCall("WaitForCompletionRef", answer)
          /\ IF answer = "error"
             THEN FaReturn("waiting to update")
             ELSE faPc' = "u_config" /\ faErr' = faErr
    /\ UNCHANGED <<faCfg, faState, faSite, faOp, faLocal, faSent, faUpdates,
                   faCreated, faImported>>

\* Update, lines 409-412: client.UpdateConfiguration with existing.SiteConfig.
FA_UpdateConfiguration ==
    /\ faPc = "u_config"
    /\ \E answer \in {"ok", "error"} :
          /\ FaCall("UpdateConfiguration", answer)
          /\ IF answer = "error"
             THEN FaReturn("updating Site Config") /\ faSite' = faSite
             ELSE /\ faSite' = <<[faSite[1] EXCEPT
                                    !.SiteConfig = faLocal.existing[1].SiteConfig]>>
                  /\ FaReturn("")
    /\ UNCHANGED <<faCfg, faState, faOp, faLocal, faSent, faUpdates, faCreated,
                   faImported>>

\* Delete, lines 335-339: the ID in state is parsed.
FA_StartDelete ==
    /\ faPc = "idle"
    /\ faState.id # NoFaId
    /\ faOp' = "delete"
    /\ faCalls' = <<>>
    /\ faSent' = <<>>
    /\ faLocal' = NoLocal
    /\ IF FunctionAppID(faState.id).err # ""
       THEN FaReturn(FunctionAppID(faState.id).err)
       ELSE faPc' = "d_delete" /\ faErr' = ""
    /\ UNCHANGED <<faCfg, faState, faSite, faUpdates, faCreated, faImported>>

\* Delete, lines 342-347: client.Delete.
FA_Delete ==
    /\ faPc = "d_delete"
    /\ \E answer \in {"ok", "error"} :
          /\ FaCall("Delete", answer)
          /\ IF answer = "error"
             THEN FaReturn("deleting") /\ faSite' = faSite
             ELSE FaReturn("") /\ faSite' = <<>>
    /\ UNCHANGED <<faCfg, faState, faOp, faLocal, faSent, faUpdates, faCreated,
                   faImported>>

\* terraform import: the state holds the given ID and nothing else; Read
\* is what fills it.  The ID of the site is imported into a new state, as
\* the test's ImportStep does; any other ID only when nothing is in state.
FA_Import ==
    /\ faPc = "idle"
    /\ \E id \in {NewFunctionAppID(FaResourceGroup, FaName), BadFunctionAppId} :
          /\ id = BadFunctionAppId => faState.id = NoFaId
          /\ id # BadFunctionAppId => faSite # <<>>
          /\ faState' = [id |-> id, attrs |-> NoFaAttrs]
    /\ faImported' = TRUE
    /\ UNCHANGED <<faCfg, faSite, faOp, faPc, faCalls, faErr, faLocal, faSent,
                   faUpdates, faCreated>>

\* A state carried over from a provider version with another ID format:
\* the attributes are those of the configuration, the ID is one that
\* parse.FunctionAppID rejects.
FA_StateWithUnparseableID ==
    /\ faPc = "idle"
    /\ faState.id = NoFaId
    /\ faSite = <<>>
    /\ faState' = [id |-> BadFunctionAppId, attrs |-> PlannedState(faCfg)]
    /\ UNCHANGED <<faCfg, faSite, faOp, faPc, faCalls, faErr, faLocal, faSent,
                   faUpdates, faCreated, faImported>>

\* The handler has returned and Terraform stores the state: the planned
\* values after a Create that set the ID, the state as it was after an
\* Update (Partial(true) is never taken back), nothing after a Delete or
\* for a resource without ID.  The handler's locals and logs are gone, and
\* so is the resource after its Delete.
FA_Returned ==
    /\ faPc = "done"
    /\ faPc' = IF faOp = "delete" /\ faErr = "" THEN "destroyed" ELSE "idle"
    /\ faOp' = "none"
    /\ faLocal' = NoLocal
    /\ faCalls' = <<>>
    /\ faSent' = <<>>
    /\ faErr' = ""
    /\ faState' =
          IF faState.id = NoFaId \/ (faOp = "delete" /\ faErr = "")
          THEN [id |-> NoFaId, attrs |-> NoFaAttrs]
          ELSE IF faOp = "create"
          THEN [faState EXCEPT !.attrs = PlannedState(faCfg)]
          ELSE faState
    /\ faCreated' =
          IF faOp = "delete" /\ faErr = ""
          THEN <<>>
          ELSE IF faOp = "read" /\ faErr = "" /\ ~faImported /\ faState.id # NoFaId
          THEN <<faState.attrs>>
          ELSE faCreated
    /\ faImported' = IF faState'.id = NoFaId THEN FALSE ELSE faImported
    /\ UNCHANGED <<faCfg, faSite, faUpdates>>

InitFA ==
    /\ faCfg \in InitialConfigs
    /\ faState = [id |-> NoFaId, attrs |-> NoFaAttrs]
    /\ faSite = <<>>
    /\ faOp = "none"
    /\ faPc = "config"
    /\ faCalls = <<>>
    /\ faErr = ""
    /\ faLocal = NoLocal
    /\ faSent = <<>>
    /\ faUpdates = 0
    /\ faCreated = <<>>
    /\ faImported = FALSE

NextFA ==
    \/ FA_Validate /\ UNCHANGED <<cacheVars, sbVars, kcVars>>
    \/ FA_StartCreate /\ UNCHANGED <<cacheVars, sbVars, kcVars>>
    \/ FA_CreateExistenceCheck /\ UNCHANGED <<cacheVars, sbVars, kcVars>>
    \/ FA_CreateEnvironment /\ UNCHANGED <<cacheVars, sbVars, kcVars>>
    \/ FA_CreateCheckName /\ UNCHANGED <<cacheVars, sbVars, kcVars>>
    \/ FA_CreateExpand /\ UNCHANGED <<cacheVars, sbVars, kcVars>>
    \/ FA_CreateEnvelope /\ UNCHANGED <<cacheVars, sbVars, kcVars>>
    \/ FA_CreateCreateOrUpdate /\ UNCHANGED <<cacheVars, sbVars, kcVars>>
    \/ FA_CreateWait /\ UNCHANGED <<cacheVars, sbVars, kcVars>>
    \/ FA_CreateSetID /\ UNCHANGED <<cacheVars, sbVars, kcVars>>
    \/ FA_StartRead /\ UNCHANGED <<cacheVars, sbVars, kcVars>>
    \/ FA_ReadGet /\ UNCHANGED <<cacheVars, sbVars, kcVars>>
    \/ FA_ReadListApplicationSettings /\ UNCHANGED <<cacheVars, sbVars, kcVars>>
    \/ FA_ReadGetConfiguration /\ UNCHANGED <<cacheVars, sbVars, kcVars>>
    \/ FA_ReadFlatten /\ UNCHANGED <<cacheVars, sbVars, kcVars>>
    \/ FA_StartUpdate /\ UNCHANGED <<cacheVars, sbVars, kcVars>>
    \/ FA_UpdateGet /\ UNCHANGED <<cacheVars, sbVars, kcVars>>
    \/ FA_UpdateExpand /\ UNCHANGED <<cacheVars, sbVars, kcVars>>
    \/ FA_UpdateMerge /\ UNCHANGED <<cacheVars, sbVars, kcVars>>
    \/ FA_UpdateCreateOrUpdate /\ UNCHANGED <<cacheVars, sbVars, kcVars>>
    \/ FA_UpdateWait /\ UNCHANGED <<cacheVars, sbVars, kcVars>>
    \/ FA_UpdateConfiguration /\ UNCHANGED <<cacheVars, sbVars, kcVars>>
    \/ FA_StartDelete /\ UNCHANGED <<cacheVars, sbVars, kcVars>>
    \/ FA_Delete /\ UNCHANGED <<cacheVars, sbVars, kcVars>>
    \/ FA_Import /\ UNCHANGED <<cacheVars, sbVars, kcVars>>
    \/ FA_StateWithUnparseableID /\ UNCHANGED <<cacheVars, sbVars, kcVars>>
    \/ FA_Returned /\ UNCHANGED <<cacheVars, sbVars, kcVars>>

\* ------------------------------------------------------------------------
\* azurerm_linux_function_app_on_container: properties
\* ------------------------------------------------------------------------

\* A Read of a resource that Create put in state has returned nil.
ReadAfterCreateDone ==
    /\ faOp = "read"
    /\ faPc = "done"
    /\ faErr = ""
    /\ faState.id # NoFaId
    /\ ~faImported

\* C5: after a successful Create and a Read, the state attribute kind is
\* "functionapp,linux,container,azurecontainerapps".
C5_KindInStateAfterCreateAndRead ==
    ReadAfterCreateDone => faState.attrs.kind = FunctionAppOnContainerKind

\* The arguments the import round trip is about.
RoundTripArguments ==
    {"name", "resource_group_name", "container_app_environment_id",
     "container_image", "registry", "site_config", "storage_account_name",
     "storage_account_access_key", "storage_key_vault_secret_id",
     "functions_extension_version"}

\* C6: a Read that starts from the resource ID alone leaves in state the same
\* values of the resource's arguments as the state held after Create
\* followed by Read.
C6_ImportRoundTrip ==
    (/\ faOp = "read"
     /\ faPc = "done"
     /\ faErr = ""
     /\ faImported
     /\ faState.id # NoFaId
     /\ faCreated # <<>>)
        => \A a \in RoundTripArguments : faState.attrs[a] = faCreated[1][a]

\* C7: with builtin_logging_enabled, every site envelope sent by Create and
\* by Update has the app setting AzureWebJobsDashboard, set to the storage
\* connection string of the configured storage setting.
C7_DashboardSetting ==
    \A i \in 1..Len(faSent) :
        faCfg.builtin_logging_enabled
            => SettingValue(faSent[i].SiteConfig[1].AppSettings[1],
                            "AzureWebJobsDashboard") = <<StorageString(faCfg)>>

\* C8: the schema rejects a configuration without site_config block, and
\* Create and Update never run with an empty site_config list.
C8_SiteConfigRequired ==
    /\ faPc \notin {"config", "rejected"} => faCfg.site_config # <<>>
    /\ faOp \in {"create", "update"} => faLocal.model.site_config # <<>>
          \/ faPc \in {"idle", "done"}

\* The two forms of the storage connection string.
IsKeyVaultForm(s, m) ==
    /\ Len(s) = 3
    /\ s[1] = "@Microsoft.KeyVault(SecretUri="
    /\ s[2] = m.storage_key_vault_secret_id

IsAccountForm(s, m) ==
    /\ Len(s) = 6
    /\ s[1] = "DefaultEndpointsProtocol=https;AccountName="
    /\ s[2] = m.storage_account_name
    /\ s[4] = m.storage_account_access_key

\* Create or Update has built its storage connection string.
StorageStringBuilt ==
    faOp \in {"create", "update"} /\ faLocal.storageString # <<>>

\* C9: every configuration the schema accepts sets exactly one of
\* storage_account_name and storage_key_vault_secret_id, and the storage
\* connection string Create and Update build is of the Key Vault form
\* exactly when storage_key_vault_secret_id is set, of the account form
\* otherwise.
C9_StorageSetting ==
    /\ faPc \notin {"config", "rejected"}
          => (faCfg.storage_account_name # "") # (faCfg.storage_key_vault_secret_id # "")
    /\ StorageStringBuilt
          => /\ IsKeyVaultForm(faLocal.storageString, faCfg)
                   <=> faCfg.storage_key_vault_secret_id # ""
             /\ faCfg.storage_key_vault_secret_id = ""
                   => IsAccountForm(faLocal.storageString, faCfg)

\* Update built the Key Vault form, after a Create that built the account form.
C9_Witness ==
    /\ faOp = "update"
    /\ StorageStringBuilt
    /\ faCfg.storage_key_vault_secret_id # ""
    /\ faState.attrs.storage_account_name # ""
    /\ IsKeyVaultForm(faLocal.storageString, faCfg)

\* The app settings of a pointer to a site config, none for nil.
AppSettingsOf(siteConfig) ==
    IF siteConfig = <<>> \/ siteConfig[1].AppSettings = <<>>
    THEN <<>>
    ELSE siteConfig[1].AppSettings[1]

\* The step in which Create or Update calls Expand.
ExpandStep ==
    \/ faPc = "c_expand" /\ faPc' = "c_envelope"
    \/ faPc = "u_expand" /\ faPc' = "u_merge"

\* C10: for a site_config of one block the app settings Expand builds hold
\* FUNCTIONS_EXTENSION_VERSION, AzureWebJobsStorage and
\* DOCKER_REGISTRY_SERVER_URL with the version, the storage connection
\* string and the registry server; APPLICATIONINSIGHTS_CONNECTION_STRING
\* exactly when the connection string is not empty; and the registry
\* username and password settings are written only when not empty.
C10_ExpandAppSettings ==
    [][(ExpandStep /\ faLocal.model.site_config # <<>>)
        => LET m == faLocal.model
               before == IF faPc = "c_expand" THEN <<>>
                         ELSE AppSettingsOf(faLocal.existing[1].SiteConfig)
               built == AppSettingsOf(faLocal'.siteConfig)
               insights == m.site_config[1].application_insights_connection_string
           IN  /\ faLocal'.siteConfig # <<>>
               /\ SettingValue(built, "FUNCTIONS_EXTENSION_VERSION")
                     = <<Str(m.functions_extension_version)>>
               /\ SettingValue(built, "AzureWebJobsStorage") = <<faLocal'.storageString>>
               /\ SettingValue(built, "DOCKER_REGISTRY_SERVER_URL")
                     = <<m.registry[1].registry_server_url>>
               /\ (SettingValue(built, "APPLICATIONINSIGHTS_CONNECTION_STRING") # <<>>)
                     <=> insights # ""
               /\ insights # ""
                     => SettingValue(built, "APPLICATIONINSIGHTS_CONNECTION_STRING")
                           = <<Str(insights)>>
               /\ SettingValue(built, "DOCKER_REGISTRY_SERVER_USERNAME")
                     = IF m.registry[1].registry_username # ""
                       THEN <<Str(m.registry[1].registry_username)>>
                       ELSE SettingValue(before, "DOCKER_REGISTRY_SERVER_USERNAME")
               /\ SettingValue(built, "DOCKER_REGISTRY_SERVER_PASSWORD")
                     = IF m.registry[1].registry_password # ""
                       THEN <<Str(m.registry[1].registry_password)>>
                       ELSE SettingValue(before, "DOCKER_REGISTRY_SERVER_PASSWORD")
      ]_vars

\* Update has called Expand for a site_config without connection string on
\* an existing app that the service answered with its settings, the
\* connection string among them.
C10_Witness ==
    /\ faPc = "u_merge"
    /\ faCalls = <<(<<"Get", "found">>)>>
    /\ faLocal.model.site_config # <<>>
    /\ faLocal.model.site_config[1].application_insights_connection_string = ""
    /\ SettingValue(AppSettingsOf(faSite[1].SiteConfig),
                    "APPLICATIONINSIGHTS_CONNECTION_STRING") # <<>>
    /\ SettingValue(AppSettingsOf(faLocal.siteConfig),
                    "APPLICATIONINSIGHTS_CONNECTION_STRING") = <<>>
    /\ SettingValue(AppSettingsOf(faLocal.siteConfig),
                    "AzureWebJobsStorage") = <<faLocal.storageString>>

\* The names of the remote calls a handler has made so far, in order.
FaCallNames == [i \in 1..Len(faCalls) |-> faCalls[i][1]]

\* The remote calls of Create, in the order of the code.
CreateSteps ==
    <<"Get", "ManagedEnvironmentGet", "CheckNameAvailability",
      "CreateOrUpdate", "WaitForCompletionRef">>

\* Create's order of steps, with nameOk the answers of the name availability
\* check after which CreateOrUpdate may be issued.
CreateOrder(nameOk) ==
    faOp = "create"
      => /\ Len(faCalls) <= Len(CreateSteps)
         /\ FaCallNames = SubSeq(CreateSteps, 1, Len(faCalls))
         /\ (Len(faCalls) >= 1 /\ faCalls[1][2] = "found")
              => faPc = "done" /\ faErr = "requires import"
         /\ Len(faCalls) >= 4
              => /\ faCalls[1][2] = "notfound"
                 /\ faCalls[2][2] = "ok"
                 /\ faCalls[3][2] \in nameOk
         /\ faState.id # NoFaId
              => /\ Len(faCalls) = 5
                 /\ faCalls[4][2] = "ok"
                 /\ faCalls[5][2] = "ok"
                 /\ faPc = "done"
                 /\ faErr = ""
         /\ (faPc \in {"done", "panic"} /\ faErr # "")
              => faState.id = NoFaId

\* C13 as stated: Create runs existence check, environment lookup, name
\* availability check, CreateOrUpdate, wait, set ID in this order;
\* CreateOrUpdate is issued only after a not-found existence check (a found
\* app gives a requires-import error), a read environment and a name answered
\* to be available; the ID is set only after the wait succeeded, and on no
\* error return.
C13_CreateOnlyIfNameAvailable == CreateOrder({"available"})

\* C13, amended: as above, but CreateOrUpdate is issued when the name
\* availability check succeeded and did not answer that the name is
\* unavailable: an answer without NameAvailable lets Create go on.
C13_CreateOrder == CreateOrder({"available", "unknown"})

C13_Witness ==
    /\ faOp = "create"
    /\ faPc = "done"
    /\ faErr = ""
    /\ faState.id # NoFaId
    /\ Len(faCalls) = 5
    /\ faCalls[3] = <<"CheckNameAvailability", "unknown">>

\* The remote calls of Update, in the order of the code.
UpdateSteps ==
    <<"Get", "CreateOrUpdate", "WaitForCompletionRef", "UpdateConfiguration">>

\* C14: Update calls Get, CreateOrUpdate, the wait and UpdateConfiguration
\* in this order; a step that fails is the last one called and the handler
\* returns an error; with an ID in state that does not parse it returns an
\* error without any remote call; the site sent by CreateOrUpdate carries
\* the tags of the site the Get answered, or the configured tags when tags
\* changed.
C14_UpdateOrder ==
    [][faOp' = "update"
         => /\ Len(faCalls') <= Len(UpdateSteps)
            /\ FaCallNames' = SubSeq(UpdateSteps, 1, Len(faCalls'))
            /\ \A i \in 1..(Len(faCalls') - 1) : faCalls'[i][2] # "error"
            /\ (faCalls' # <<>> /\ faCalls'[Len(faCalls')][2] = "error")
                 => faPc' = "done" /\ faErr' # ""
            /\ FunctionAppID(faState'.id).err # ""
                 => /\ faCalls' = <<>>
                    /\ faPc' = "done"
                    /\ faErr' = FunctionAppID(faState'.id).err
            /\ faPc = "u_send"
                 => faSent'[Len(faSent')].Tags =
                       IF faState.attrs.tags # faCfg.tags
                       THEN faCfg.tags
                       ELSE ExistingSite(faCalls[1][2])[1].Tags
      ]_vars

C14_Witness ==
    /\ faOp = "update"
    /\ faPc = "done"
    /\ faErr = ""
    /\ Len(faCalls) = 4
    /\ faCalls[1] = <<"Get", "found with other tags">>
    /\ faCfg.tags = NoTags
    /\ faSent[1].Tags = OtherTags

\* C22: an Update in which neither registry nor container_image changed
\* sends with CreateOrUpdate the LinuxFxVersion the service holds for the
\* existing app (the one its Get answered), whether or not site_config
\* changed.
C22_UpdateKeepsLinuxFxVersion ==
    [][(/\ faOp = "update"
        /\ faPc = "u_send"
        /\ Len(faSent') = Len(faSent) + 1
        /\ ~HasChange("registry")
        /\ ~HasChange("container_image"))
          => LET sent == faSent'[Len(faSent')]
             IN  /\ sent.SiteConfig # <<>>
                 /\ sent.SiteConfig[1].LinuxFxVersion
                      = faSite[1].SiteConfig[1].LinuxFxVersion
      ]_vars

\* C23: for the registry server and the image of every configuration,
\* decoding the encoded LinuxFxVersion gives the image back with no error;
\* and a Read that decoded the LinuxFxVersion encoded from the configuration
\* has the configured image as container_image.
C23_FxVersionRoundTrip ==
    /\ faCfg.registry # <<>>
         => DecodeLinuxFunctionAppOnContainerLinuxFxVersion(
                EncodeLinuxFunctionAppOnContainerLinuxFxVersion(
                    faCfg.registry, faCfg.container_image))
              = [value |-> faCfg.container_image, err |-> "", panic |-> FALSE]
    /\ (/\ faOp = "read"
        /\ faPc = "done"
        /\ faErr = ""
        /\ faCfg.registry # <<>>
        /\ faLocal.configResp # <<>>
        /\ faLocal.configResp[1].LinuxFxVersion
             = EncodeLinuxFunctionAppOnContainerLinuxFxVersion(
                   faCfg.registry, faCfg.container_image))
         => faLocal.model.container_image = faCfg.container_image

\* C24: Read's decoding of the LinuxFxVersion the service answered gives the
\* empty string and no error for nil, an error for every other input that
\* is not two parts separated by "|" with the first part DOCKER, and never
\* ends the handler by reading a part that is not there.
C24_DecodeRejectsOtherFormats ==
    (/\ faOp = "read"
     /\ faPc \in {"done", "panic"}
     /\ faLocal.configResp # <<>>)
        => LET input == faLocal.configResp[1].LinuxFxVersion
               r == DecodeLinuxFunctionAppOnContainerLinuxFxVersion(input)
           IN  /\ ~r.panic
               /\ faPc # "panic"
               /\ input = <<>> => (r.value = <<>> /\ r.err = "" /\ faErr = "")
               /\ (/\ input # <<>>
                   /\ \/ Len(Split(input[1], "|")) # 2
                      \/ Split(input[1], "|")[1] # <<"DOCKER">>)
                    => (r.err # "" /\ faErr # "")

\* The handlers at rest, for the specifications of the other parts.
ParkedFA ==
    /\ faCfg = NoModel
    /\ faState = [id |-> NoFaId, attrs |-> NoFaAttrs]
    /\ faSite = <<>>
    /\ faOp = "none"
    /\ faPc = "rejected"
    /\ faCalls = <<>>
    /\ faErr = ""
    /\ faLocal = NoLocal
    /\ faSent = <<>>
    /\ faUpdates = 0
    /\ faCreated = <<>>
    /\ faImported = FALSE

\* The handlers at rest, for the specifications of the other parts.
ParkedSB ==
    /\ sbKind = "subscription"
    /\ sbBeta = FALSE
    /\ sbCfg = NoAttrs
    /\ d = [id |-> NoId, isNew |-> FALSE, st |-> NoAttrs]
    /\ resourceId = ZeroResourceId
    /\ sbOp = "none"
    /\ sbPc = "idle"
    /\ sbCalls = <<>>
    /\ sbErr = ""
    /\ sbResp = ""

\* ------------------------------------------------------------------------
\* azurerm_kubernetes_cluster data source: values
\* ------------------------------------------------------------------------
\* Pointers are sequences of length at most one, as above; a Go map with
\* string keys is a function that maps a key without entry to <<>>.

\* The number of add-on profiles of a cluster.
MaxAddons == 1

\* The keys of the add-on profiles the two flatten functions look for.
aciConnectorKey == "aciConnectorLinux"

azurePolicyKey == "azurepolicy"

kubernetesDashboardKey == "kubeDashboard"

httpApplicationRoutingKey == "httpApplicationRouting"

omsAgentKey == "omsagent"

ingressApplicationGatewayKey == "ingressApplicationGateway"

openServiceMeshKey == "openServiceMesh"

azureKeyvaultSecretsProviderKey == "azureKeyvaultSecretsProvider"

AddonKeys ==
    {aciConnectorKey, azurePolicyKey, kubernetesDashboardKey,
     httpApplicationRoutingKey, omsAgentKey, ingressApplicationGatewayKey,
     openServiceMeshKey, azureKeyvaultSecretsProviderKey}

\* The keys of an add-on profile's Config the flatten functions read.
ConfigKeys ==
    {"SubnetName", "HTTPApplicationRoutingZoneName",
     "logAnalyticsWorkspaceResourceID", "applicationGatewayId",
     "enableSecretRotation", "rotationPollInterval"}

NoConfig == [k \in ConfigKeys |-> <<>>]

\* A Log Analytics workspace ID as the service writes it and as
\* laparse.LogAnalyticsWorkspaceID(...).ID() spells it.
WorkspaceIdAnswered == <<"resourcegroups", "rg", "workspaces", "w">>

WorkspaceIdParsed == <<"resourceGroups", "rg", "workspaces", "w">>

\* laparse.LogAnalyticsWorkspaceID: the ID in the provider's spelling.
LogAnalyticsWorkspaceID(v) ==
    IF v = WorkspaceIdAnswered \/ v = WorkspaceIdParsed
    THEN [err |-> FALSE, id |-> WorkspaceIdParsed]
    ELSE [err |-> TRUE, id |-> <<>>]

\* The Config maps the service answers for the add-on with key k.
ConfigsOf(k) ==
    IF k = aciConnectorKey
    THEN {[NoConfig EXCEPT !["SubnetName"] = <<"subnet">>]}
    ELSE IF k = httpApplicationRoutingKey
    THEN {[NoConfig EXCEPT !["HTTPApplicationRoutingZoneName"] = <<"zone">>]}
    ELSE IF k = omsAgentKey
    THEN {[NoConfig EXCEPT !["logAnalyticsWorkspaceResourceID"] = <<WorkspaceIdAnswered>>]}
    ELSE IF k = ingressApplicationGatewayKey
    THEN {[NoConfig EXCEPT !["applicationGatewayId"] = <<"gw">>]}
    ELSE IF k = azureKeyvaultSecretsProviderKey
    THEN {NoConfig,
          [NoConfig EXCEPT !["enableSecretRotation"] = <<"true">>,
                           !["rotationPollInterval"] = <<"2m">>],
          [NoConfig EXCEPT !["enableSecretRotation"] = <<"false">>]}
    ELSE {NoConfig}

\* containerservice.ManagedClusterAddonProfile values of the add-on k:
\* Enabled is nil, false or true.
AddonProfilesOf(k) ==
    {[Enabled |-> e, Config |-> c] : e \in {<<>>, <<FALSE>>, <<TRUE>>}, c \in ConfigsOf(k)}

NoAddons == [k \in AddonKeys |-> <<>>]

\* Every add-on profile value of the clusters.
AllAddonProfiles == UNION {AddonProfilesOf(k) : k \in AddonKeys}

\* The AddonProfiles maps with a profile for exactly the keys in S.
AddonProfileMapsFor(S) ==
    {[k \in AddonKeys |-> IF k \in S THEN <<f[k]>> ELSE <<>>] :
        f \in {g \in [S -> AllAddonProfiles] : \A k \in S : g[k] \in AddonProfilesOf(k)}}

\* The AddonProfiles maps of the clusters: at most MaxAddons profiles.
AddonProfileMaps ==
    UNION {AddonProfileMapsFor(S) :
             S \in {T \in SUBSET AddonKeys : Cardinality(T) <= MaxAddons}}

\* containerservice.ManagedClusterAADProfile; its fields play no part here.
AadProfileAnswered == [Managed |-> <<TRUE>>, TenantID |-> <<"tenant">>]

\* The resource ID of the kubelet identity: one the provider can parse and
\* one it cannot.
KubeletIdentityIds == {<<"userAssignedIdentities", "kubelet">>, <<"notanid">>}

\* msiparse.UserAssignedIdentityIDInsensitively
UserAssignedIdentityIDInsensitively(v) ==
    IF Len(v) = 2 /\ v[1] = "userAssignedIdentities"
    THEN [err |-> "", id |-> v]
    ELSE [err |-> "parsing user assigned identity ID", id |-> <<>>]

\* props.IdentityProfile: nil, or a map whose kubeletidentity has a resource ID.
IdentityProfiles == {<<>>} \cup {<<[ResourceID |-> <<v>>]>> : v \in KubeletIdentityIds}

\* containerservice.ManagedClusterProperties, the fields Read's branches and
\* these flatten functions look at.
ClusterProperties ==
    [EnableRBAC : {<<>>, <<FALSE>>, <<TRUE>>},
     AadProfile : {<<>>, <<AadProfileAnswered>>},
     DisableLocalAccounts : {<<>>, <<FALSE>>, <<TRUE>>},
     AddonProfiles : AddonProfileMaps,
     IdentityProfile : IdentityProfiles]

\* The clusters the service can hold: with or without properties.
Clusters ==
    {[ManagedClusterProperties |-> <<>>]}
      \cup {[ManagedClusterProperties |-> <<p>>] : p \in ClusterProperties}

\* The cluster the data source's configuration names.
KcName == "aks"

KcResourceGroup == "rg"

\* parse.NewClusterID(subscriptionId, resourceGroup, name).ID()
NewClusterID(group, name) == <<"managedClusters", group, name>>

\* The attributes of the data source this model follows, at the zero values
\* d.Get gives for an attribute that was never set.
NoKcAttrs ==
    [name |-> "", resource_group_name |-> "",
     addon_profile |-> <<>>,
     aci_connector_linux |-> <<>>,
     azure_policy_enabled |-> FALSE,
     http_application_routing_enabled |-> FALSE,
     http_application_routing_zone_name |-> "",
     oms_agent |-> <<>>,
     ingress_application_gateway |-> <<>>,
     open_service_mesh_enabled |-> FALSE,
     key_vault_secrets_provider |-> <<>>,
     kubelet_identity |-> <<>>,
     role_based_access_control_enabled |-> FALSE,
     role_based_access_control |-> <<>>,
     kube_admin_config_raw |-> "",
     kube_admin_config |-> <<>>,
     kube_config_raw |-> "",
     kube_config |-> <<>>]

\* The ResourceData a Read of the data source starts with: the configured
\* name and resource group, no ID, nothing set.
FreshData ==
    [id |-> <<>>,
     attrs |-> [NoKcAttrs EXCEPT !.name = KcName, !.resource_group_name = KcResourceGroup],
     set |-> {}]

\* No answer of Get and GetAccessProfile yet.
NoKcResp == [cluster |-> <<>>, profile |-> "none"]

\* ------------------------------------------------------------------------
\* azurerm_kubernetes_cluster data source: flatten functions
\* ------------------------------------------------------------------------

\* kubernetesAddonProfileLocate(profile, key): the profile under the key, nil
\* when the map has none.
kubernetesAddonProfileLocate(profile, key) == profile[key]

\* kubernetesAddonProfilelocateInConfig(config, key): the value under the
\* key, nil when the map has none.
kubernetesAddonProfilelocateInConfig(config, key) == config[key]

\* The string a Config value points to, "" for nil:
\* `x := ""; if v := ...; v != nil { x = *v }`.
ConfigString(config, key) ==
    LET v == kubernetesAddonProfilelocateInConfig(config, key)
    IN  IF v # <<>> THEN v[1] ELSE ""

\* An add-on counted as enabled as soon as its profile is there.
AddonEnabled_WhenPresent(addon) == addon # <<>>

\* `addon != nil` and `enabled := addon.Enabled; enabled != nil && *enabled`
AddonEnabled(addon) ==
    /\ addon # <<>>
    /\ addon[1].Enabled # <<>>
    /\ addon[1].Enabled[1]

\* `enabled := false; if enabledVal := addon.Enabled; enabledVal != nil
\* { enabled = *enabledVal }` for a profile that is there.
EnabledOrFalse(addon) ==
    IF addon[1].Enabled # <<>> THEN addon[1].Enabled[1] ELSE FALSE

\* The same under `if addon := kubernetesAddonProfileLocate(...); addon != nil`.
AddonFlag(addon) ==
    IF addon # <<>> THEN EnabledOrFalse(addon) ELSE FALSE

\* flattenKubernetesClusterDataSourceAddOns, lines 1145-1154: the workspace
\* ID is rewritten by its parser, "" when it does not parse.
OmsAgentWorkspaceId(config) ==
    LET v == kubernetesAddonProfilelocateInConfig(config, "logAnalyticsWorkspaceResourceID")
    IN  IF v # <<>> /\ ~LogAnalyticsWorkspaceID(v[1]).err
        THEN LogAnalyticsWorkspaceID(v[1]).id
        ELSE <<>>

\* flattenKubernetesClusterDataSourceAddOns, lines 1198-1201:
\* `v != nil && *v != "false"`.
EnableSecretRotation(config) ==
    LET v == kubernetesAddonProfilelocateInConfig(config, "enableSecretRotation")
    IN  v # <<>> /\ v[1] # "false"

\* flattenKubernetesClusterDataSourceAddOns: the blocks and flags that
\* replace addon_profile.  The identities of the add-ons are left out.
flattenKubernetesClusterDataSourceAddOns(profile) ==
    LET aciConnector == kubernetesAddonProfileLocate(profile, aciConnectorKey)
        azurePolicy == kubernetesAddonProfileLocate(profile, azurePolicyKey)
        httpApplicationRouting == kubernetesAddonProfileLocate(profile, httpApplicationRoutingKey)
        omsAgent == kubernetesAddonProfileLocate(profile, omsAgentKey)
        ingressApplicationGateway == kubernetesAddonProfileLocate(profile, ingressApplicationGatewayKey)
        openServiceMesh == kubernetesAddonProfileLocate(profile, openServiceMeshKey)
        azureKeyVaultSecretsProvider == kubernetesAddonProfileLocate(profile, azureKeyvaultSecretsProviderKey)
    IN  [aci_connector_linux |->
             IF AddonEnabled(aciConnector)
             THEN <<[subnet_name |-> IF aciConnector[1].Config["SubnetName"] # <<>>
                                     THEN aciConnector[1].Config["SubnetName"][1]
                                     ELSE ""]>>
             ELSE <<>>,
         azure_policy_enabled |-> AddonFlag(azurePolicy),
         http_application_routing_enabled |-> AddonFlag(httpApplicationRouting),
         http_application_routing_zone_name |->
             IF httpApplicationRouting # <<>>
             THEN ConfigString(httpApplicationRouting[1].Config, "HTTPApplicationRoutingZoneName")
             ELSE "",
         oms_agent |->
             IF AddonEnabled(omsAgent)
             THEN <<[log_analytics_workspace_id |-> OmsAgentWorkspaceId(omsAgent[1].Config)]>>
             ELSE <<>>,
         ingress_application_gateway |->
             IF AddonEnabled(ingressApplicationGateway)
             THEN <<[gateway_id |-> ConfigString(ingressApplicationGateway[1].Config,
                                                 "applicationGatewayId")]>>
             ELSE <<>>,
         open_service_mesh_enabled |-> AddonFlag(openServiceMesh),
         key_vault_secrets_provider |->
             IF AddonEnabled(azureKeyVaultSecretsProvider)
             THEN <<[secret_rotation_enabled |->
                         EnableSecretRotation(azureKeyVaultSecretsProvider[1].Config),
                     secret_rotation_interval |->
                         ConfigString(azureKeyVaultSecretsProvider[1].Config,
                                      "rotationPollInterval")]>>
             ELSE <<>>]

\* `v == utils.String("true")`: v is compared, as a pointer, with a pointer
\* to a string made for the comparison; the two are never the same pointer.
IsPointerToNewString(v, s) == FALSE

\* flattenKubernetesClusterDataSourceAddonProfiles, lines 1375-1378.
EnableSecretRotationString(config) ==
    LET v == kubernetesAddonProfilelocateInConfig(config, "enableSecretRotation")
    IN  IF IsPointerToNewString(v, "true") THEN v[1] ELSE "false"

\* The one-element list `[enabled]` of a profile that is there, else [].
EnabledBlock(addon) ==
    IF addon # <<>> THEN <<[enabled |-> EnabledOrFalse(addon)]>> ELSE <<>>

\* flattenKubernetesClusterDataSourceAddonProfiles: the deprecated
\* addon_profile block, one block per profile in the map whether enabled or
\* not.  The identities of the add-ons are left out.
flattenKubernetesClusterDataSourceAddonProfiles(profile) ==
    LET httpApplicationRouting == kubernetesAddonProfileLocate(profile, httpApplicationRoutingKey)
        omsAgent == kubernetesAddonProfileLocate(profile, omsAgentKey)
        kubeDashboard == kubernetesAddonProfileLocate(profile, kubernetesDashboardKey)
        azurePolicy == kubernetesAddonProfileLocate(profile, azurePolicyKey)
        ingressApplicationGateway == kubernetesAddonProfileLocate(profile, ingressApplicationGatewayKey)
        openServiceMesh == kubernetesAddonProfileLocate(profile, openServiceMeshKey)
        azureKeyvaultSecretsProvider == kubernetesAddonProfileLocate(profile, azureKeyvaultSecretsProviderKey)
    IN  <<[http_application_routing |->
               IF httpApplicationRouting # <<>>
               THEN <<[enabled |-> EnabledOrFalse(httpApplicationRouting),
                       http_application_routing_zone_name |->
                           ConfigString(httpApplicationRouting[1].Config,
                                        "HTTPApplicationRoutingZoneName")]>>
               ELSE <<>>,
           oms_agent |->
               IF omsAgent # <<>>
               THEN <<[enabled |-> EnabledOrFalse(omsAgent),
                       log_analytics_workspace_id |->
                           IF omsAgent[1].Config["logAnalyticsWorkspaceResourceID"] # <<>>
                           THEN omsAgent[1].Config["logAnalyticsWorkspaceResourceID"][1]
                           ELSE <<>>]>>
               ELSE <<>>,
           kube_dashboard |-> EnabledBlock(kubeDashboard),
           azure_policy |-> EnabledBlock(azurePolicy),
           ingress_application_gateway |->
               IF ingressApplicationGateway # <<>>
               THEN <<[enabled |-> EnabledOrFalse(ingressApplicationGateway),
                       gateway_id |-> ConfigString(ingressApplicationGateway[1].Config,
                                                   "applicationGatewayId")]>>
               ELSE <<>>,
           open_service_mesh |-> EnabledBlock(openServiceMesh),
           azure_keyvault_secrets_provider |->
               IF azureKeyvaultSecretsProvider # <<>>
               THEN <<[enabled |-> EnabledOrFalse(azureKeyvaultSecretsProvider),
                       secret_rotation_enabled |->
                           EnableSecretRotationString(azureKeyvaultSecretsProvider[1].Config),
                       secret_rotation_interval |->
                           ConfigString(azureKeyvaultSecretsProvider[1].Config,
                                        "rotationPollInterval")]>>
               ELSE <<>>]>>

\* Read, lines 959-963: role_based_access_control_enabled.
RbacEnabled(props) ==
    IF props.EnableRBAC # <<>> THEN props.EnableRBAC[1] ELSE TRUE

\* flattenKubernetesClusterDataSourceRoleBasedAccessControl: the deprecated
\* role_based_access_control block.
flattenKubernetesClusterDataSourceRoleBasedAccessControl(input) ==
    LET rbacEnabled == IF input.EnableRBAC # <<>> THEN input.EnableRBAC[1] ELSE FALSE
        results == IF input.AadProfile # <<>>
                   THEN <<[managed |-> IF input.AadProfile[1].Managed # <<>>
                                       THEN input.AadProfile[1].Managed[1] ELSE FALSE,
                           tenant_id |-> IF input.AadProfile[1].TenantID # <<>>
                                         THEN input.AadProfile[1].TenantID[1] ELSE ""]>>
                   ELSE <<>>
    IN  <<[enabled |-> rbacEnabled, azure_active_directory |-> results]>>

\* flattenKubernetesClusterDataSourceIdentityProfile: the kubelet identity,
\* or the error of parsing its resource ID.
flattenKubernetesClusterDataSourceIdentityProfile(profile) ==
    IF profile = <<>>
    THEN [err |-> "", value |-> <<>>]
    ELSE LET parsedId == UserAssignedIdentityIDInsensitively(profile[1].ResourceID[1])
         IN  IF parsedId.err # ""
             THEN [err |-> parsedId.err, value |-> <<>>]
             ELSE [err |-> "", value |-> <<[user_assigned_identity_id |-> parsedId.id]>>]

\* What a GetAccessProfile that succeeds answers: no kube config, one that
\* does not parse, one that parses.
AccessProfileAnswers == {"nil", "unparseable", "parsed"}

\* flattenKubernetesClusterDataSourceAccessProfile: (raw, flattened); the raw
\* config is nil without a kube config, the list empty unless it parses.
flattenKubernetesClusterDataSourceAccessProfile(profile) ==
    IF profile = "nil"
    THEN [raw |-> <<>>, config |-> <<>>]
    ELSE IF profile = "unparseable"
    THEN [raw |-> <<profile>>, config |-> <<>>]
    ELSE [raw |-> <<profile>>, config |-> <<[host |-> "host"]>>]

\* d.Set with a *string: the string, "" for nil.
StringOrEmpty(ptr) == IF ptr = <<>> THEN "" ELSE ptr[1]

\* An admin profile asked for whenever the cluster has an AAD profile.
AdminProfileAvailable_AadOnly(props) == props.AadProfile # <<>>

\* Read, line 983: `props.AadProfile != nil && (props.DisableLocalAccounts
\* == nil || !*props.DisableLocalAccounts)`.
AdminProfileAvailable(props) ==
    /\ props.AadProfile # <<>>
    /\ \/ props.DisableLocalAccounts = <<>>
       \/ ~props.DisableLocalAccounts[1]

\* ------------------------------------------------------------------------
\* azurerm_kubernetes_cluster data source: Read
\* ------------------------------------------------------------------------

\* Read returns err.
KcReturn(err) ==
    /\ kcErr' = err
    /\ kcPc' = "done"

\* One remote call and its answer.
KcCall(name, answer) == kcCalls' = Append(kcCalls, <<name, answer>>)

\* d.Set(key, value) for every key of the record values.
SetAll(data, values) ==
    [data EXCEPT
        !.attrs = [a \in DOMAIN data.attrs |->
                      IF a \in DOMAIN values THEN values[a] ELSE data.attrs[a]],
        !.set = data.set \cup DOMAIN values]

\* Terraform reads the data source: a ResourceData with the configuration
\* and nothing else.
KC_StartRead ==
    /\ kcPc \in {"idle", "done"}
    /\ kcD' = FreshData
    /\ kcCalls' = <<>>
    /\ kcResp' = NoKcResp
    /\ kcErr' = ""
    /\ kcPc' = "r_get"
    /\ UNCHANGED <<kcBeta, kcCluster>>

\* Read, lines 873-879: what the answer of Get makes Read return, "" to go on.
GetFailure(answer) ==
    IF answer = "notfound" THEN "was not found"
    ELSE IF answer = "error" THEN "retrieving"
    ELSE ""

\* Read, lines 872-879: client.Get.
KC_Get ==
    /\ kcPc = "r_get"
    /\ \E answer \in (IF kcCluster = <<>> THEN {"notfound"} ELSE {"found"}) \cup {"error"} :
          /\ KcCall("Get", answer)
          /\ IF GetFailure(answer) # ""
             THEN KcReturn(GetFailure(answer)) /\ kcResp' = kcResp
             ELSE /\ kcResp' = [kcResp EXCEPT !.cluster = kcCluster]
                  /\ kcPc' = "r_profile"
                  /\ kcErr' = kcErr
    /\ UNCHANGED <<kcBeta, kcCluster, kcD>>

\* A failed request for the access profile that does not stop Read.
AccessProfileFailure_Ignored(answer) == ""

\* Read, lines 882-884: what the answer of GetAccessProfile makes Read
\* return, "" to go on.
AccessProfileFailure(answer) ==
    IF answer = "error" THEN "retrieving Access Profile" ELSE ""

\* Read, lines 881-884: client.GetAccessProfile for clusterUser.
KC_GetAccessProfile ==
    /\ kcPc = "r_profile"
    /\ \E answer \in AccessProfileAnswers \cup {"error"} :
          /\ KcCall("GetAccessProfile clusterUser", answer)
          /\ IF AccessProfileFailure(answer) # ""
             THEN KcReturn(AccessProfileFailure(answer)) /\ kcResp' = kcResp
             ELSE /\ kcResp' = [kcResp EXCEPT !.profile = answer]
                  /\ kcPc' = "r_set"
                  /\ kcErr' = kcErr
    /\ UNCHANGED <<kcBeta, kcCluster, kcD>>

\* Read, lines 914-929: addon_profile outside 3.0-beta mode, and the blocks
\* and flags that replace it.
AddonAttributes(props) ==
    LET addOns == flattenKubernetesClusterDataSourceAddOns(props.AddonProfiles)
    IN  IF kcBeta
        THEN addOns
        ELSE [a \in DOMAIN addOns \cup {"addon_profile"} |->
                 IF a = "addon_profile"
                 THEN flattenKubernetesClusterDataSourceAddonProfiles(props.AddonProfiles)
                 ELSE addOns[a]]

\* Read, lines 959-975: role_based_access_control_enabled, and outside
\* 3.0-beta mode the role_based_access_control block.
RbacAttributes(props) ==
    IF kcBeta
    THEN [a \in {"role_based_access_control_enabled"} |-> RbacEnabled(props)]
    ELSE [role_based_access_control_enabled |-> RbacEnabled(props),
          role_based_access_control |->
              flattenKubernetesClusterDataSourceRoleBasedAccessControl(props)]

\* Read, lines 886-980: the ID, then the attributes up to the admin profile.
\* An error of the kubelet identity is returned with the ID and the
\* attributes before it set.
KC_SetAttributes ==
    /\ kcPc = "r_set"
    /\ LET id == NewClusterID(kcD.attrs.resource_group_name, kcD.attrs.name)
           withId == SetAll([kcD EXCEPT !.id = id],
                            [name |-> KcName, resource_group_name |-> id[2]])
           cluster == kcResp.cluster[1]
       IN  IF cluster.ManagedClusterProperties = <<>>
           THEN /\ kcD' = withId
                /\ kcPc' = "r_finish"
                /\ kcErr' = kcErr
           ELSE LET props == cluster.ManagedClusterProperties[1]
                    withAddons == SetAll(withId, AddonAttributes(props))
                    kubeletIdentity ==
                        flattenKubernetesClusterDataSourceIdentityProfile(props.IdentityProfile)
                IN  IF kubeletIdentity.err # ""
                    THEN /\ kcD' = withAddons
                         /\ KcReturn(kubeletIdentity.err)
                    ELSE /\ kcD' = SetAll(SetAll(withAddons,
                                                 [kubelet_identity |-> kubeletIdentity.value]),
                                          RbacAttributes(props))
                         /\ kcPc' = "r_admin"
                         /\ kcErr' = kcErr
    /\ UNCHANGED <<kcBeta, kcCluster, kcCalls, kcResp>>

\* Read, lines 982-997: the clusterAdmin access profile of a cluster that has
\* one, else the empty admin config.  flattenKubernetesClusterAccessProfile
\* is taken to flatten the admin profile as the clusterUser profile is.
KC_AdminAccessProfile ==
    /\ kcPc = "r_admin"
    /\ IF AdminProfileAvailable(kcResp.cluster[1].ManagedClusterProperties[1])
       THEN \E answer \in AccessProfileAnswers \cup {"error"} :
              /\ KcCall("GetAccessProfile clusterAdmin", answer)
              /\ IF answer = "error"
                 THEN KcReturn("retrieving Admin Access Profile") /\ kcD' = kcD
                 ELSE LET admin == flattenKubernetesClusterDataSourceAccessProfile(answer)
                      IN  /\ kcD' = SetAll(kcD,
                                       [kube_admin_config_raw |-> StringOrEmpty(admin.raw),
                                        kube_admin_config |-> admin.config])
                          /\ kcPc' = "r_finish"
                          /\ kcErr' = kcErr
       ELSE /\ kcD' = SetAll(kcD, [kube_admin_config_raw |-> "",
                                   kube_admin_config |-> <<>>])
            /\ kcPc' = "r_finish"
            /\ UNCHANGED <<kcCalls, kcErr>>
    /\ UNCHANGED <<kcBeta, kcCluster, kcResp>>

\* Read, lines 1000-1015: the kube config of the clusterUser profile; nil.
KC_Finish ==
    /\ kcPc = "r_finish"
    /\ LET user == flattenKubernetesClusterDataSourceAccessProfile(kcResp.profile)
       IN  kcD' = SetAll(kcD, [kube_config_raw |-> StringOrEmpty(user.raw),
                               kube_config |-> user.config])
    /\ KcReturn("")
    /\ UNCHANGED <<kcBeta, kcCluster, kcCalls, kcResp>>

\* Any cluster, or none, in either mode of the provider.
InitKC ==
    /\ kcBeta \in BOOLEAN
    /\ kcCluster \in {<<>>} \cup {<<c>> : c \in Clusters}
    /\ kcD = FreshData
    /\ kcPc = "idle"
    /\ kcCalls = <<>>
    /\ kcResp = NoKcResp
    /\ kcErr = ""

NextKC ==
    \/ KC_StartRead /\ UNCHANGED <<cacheVars, sbVars, faVars>>
    \/ KC_Get /\ UNCHANGED <<cacheVars, sbVars, faVars>>
    \/ KC_GetAccessProfile /\ UNCHANGED <<cacheVars, sbVars, faVars>>
    \/ KC_SetAttributes /\ UNCHANGED <<cacheVars, sbVars, faVars>>
    \/ KC_AdminAccessProfile /\ UNCHANGED <<cacheVars, sbVars, faVars>>
    \/ KC_Finish /\ UNCHANGED <<cacheVars, sbVars, faVars>>

\* ------------------------------------------------------------------------
\* azurerm_kubernetes_cluster data source: properties
\* ------------------------------------------------------------------------

\* The cluster has an AAD profile and its local accounts are not disabled.
HasAadAndLocalAccounts(cluster) ==
    /\ cluster # <<>>
    /\ cluster[1].ManagedClusterProperties # <<>>
    /\ cluster[1].ManagedClusterProperties[1].AadProfile # <<>>
    /\ cluster[1].ManagedClusterProperties[1].DisableLocalAccounts \in {<<>>, <<FALSE>>}

\* The calls so far include a request for the clusterAdmin access profile.
AdminRequested(calls) ==
    \E i \in 1..Len(calls) : calls[i][1] = "GetAccessProfile clusterAdmin"

C26_RbacEnabledAgree ==
    (~kcBeta /\ "role_based_access_control" \in kcD.set)
        => kcD.attrs.role_based_access_control[1].enabled
             = kcD.attrs.role_based_access_control_enabled

\* C27: outside 3.0-beta mode, for a cluster whose Key Vault secrets provider
\* add-on is enabled, secret_rotation_enabled of
\* addon_profile.azure_keyvault_secrets_provider is "true" exactly when
\* secret_rotation_enabled of key_vault_secrets_provider is true.
C27_SecretRotationAgree ==
    (/\ ~kcBeta
     /\ "key_vault_secrets_provider" \in kcD.set
     /\ kcResp.cluster[1].ManagedClusterProperties[1]
            .AddonProfiles[azureKeyvaultSecretsProviderKey] # <<>>
     /\ kcResp.cluster[1].ManagedClusterProperties[1]
            .AddonProfiles[azureKeyvaultSecretsProviderKey][1].Enabled = <<TRUE>>)
        => /\ kcD.attrs.key_vault_secrets_provider # <<>>
           /\ kcD.attrs.addon_profile[1].azure_keyvault_secrets_provider # <<>>
           /\ (kcD.attrs.addon_profile[1].azure_keyvault_secrets_provider[1]
                   .secret_rotation_enabled = "true")
                <=> kcD.attrs.key_vault_secrets_provider[1].secret_rotation_enabled

\* The add-on profile of the cluster Read got, under the key.
AddonOf(key) ==
    kcResp.cluster[1].ManagedClusterProperties[1].AddonProfiles[key]

\* A block list has one element for an add-on whose profile is there with
\* enabled = true, none otherwise.
OneBlockIfEnabled(list, key) ==
    IF AddonOf(key) # <<>> /\ AddonOf(key)[1].Enabled = <<TRUE>>
    THEN Len(list) = 1
    ELSE list = <<>>

\* A flag is false for an add-on that is not there or whose enabled is
\* unset, and the enabled flag otherwise.
FlagIfEnabled(flag, key) ==
    IF AddonOf(key) = <<>> \/ AddonOf(key)[1].Enabled = <<>>
    THEN flag = FALSE
    ELSE flag = AddonOf(key)[1].Enabled[1]

\* C28: of what flattenKubernetesClusterDataSourceAddOns gives and Read
\* sets, aci_connector_linux, oms_agent, ingress_application_gateway and
\* key_vault_secrets_provider are lists of one element for an add-on profile
\* with enabled = true and empty otherwise; azure_policy_enabled,
\* http_application_routing_enabled and open_service_mesh_enabled are false
\* for a profile that is absent or has no enabled flag, and the flag otherwise.
C28_AddOnsFlattened ==
    "aci_connector_linux" \in kcD.set
        => /\ OneBlockIfEnabled(kcD.attrs.aci_connector_linux, aciConnectorKey)
           /\ OneBlockIfEnabled(kcD.attrs.oms_agent, omsAgentKey)
           /\ OneBlockIfEnabled(kcD.attrs.ingress_application_gateway,
                                ingressApplicationGatewayKey)
           /\ OneBlockIfEnabled(kcD.attrs.key_vault_secrets_provider,
                                azureKeyvaultSecretsProviderKey)
           /\ FlagIfEnabled(kcD.attrs.azure_policy_enabled, azurePolicyKey)
           /\ FlagIfEnabled(kcD.attrs.http_application_routing_enabled,
                            httpApplicationRoutingKey)
           /\ FlagIfEnabled(kcD.attrs.open_service_mesh_enabled, openServiceMeshKey)

\* Read has set the add-on attributes of a cluster whose OMS agent profile is
\* there but disabled: oms_agent is empty although addon_profile has the block.
C28_Witness ==
    /\ "oms_agent" \in kcD.set
    /\ ~kcBeta
    /\ AddonOf(omsAgentKey) # <<>>
    /\ AddonOf(omsAgentKey)[1].Enabled = <<FALSE>>
    /\ kcD.attrs.oms_agent = <<>>
    /\ kcD.attrs.addon_profile[1].oms_agent # <<>>

\* The last call made is the cluster Get or the clusterUser request, and it
\* failed.
GetOrUserProfileFailed(calls) ==
    /\ calls # <<>>
    /\ LET last == calls[Len(calls)]
       IN  \/ last[1] = "Get" /\ last[2] # "found"
           \/ last[1] = "GetAccessProfile clusterUser" /\ last[2] = "error"

\* C29: a not-found answer of the cluster Get makes Read return an error;
\* the ID is set only after the Get and the clusterUser access profile
\* request both succeeded; and when either fails Read returns an error with
\* no ID and no attribute written.
C29_IdOnlyAfterGetAndProfile ==
    [][/\ (kcPc = "r_get" /\ kcCalls' # kcCalls
             /\ kcCalls'[Len(kcCalls')] = <<"Get", "notfound">>)
            => (kcPc' = "done" /\ kcErr' # "" /\ kcD'.id = <<>>)
       /\ (kcD.id = <<>> /\ kcD'.id # <<>>)
            => /\ Len(kcCalls) = 2
               /\ kcCalls[1] = <<"Get", "found">>
               /\ kcCalls[2][1] = "GetAccessProfile clusterUser"
               /\ kcCalls[2][2] # "error"
       /\ (kcCalls' # kcCalls /\ GetOrUserProfileFailed(kcCalls'))
            => /\ kcPc' = "done"
               /\ kcErr' # ""
               /\ kcD'.id = <<>>
               /\ kcD'.set = {}
       /\ (kcPc = "done" /\ GetOrUserProfileFailed(kcCalls) /\ kcPc' = "done")
            => kcD' = kcD
      ]_vars

\* Read has returned the error of the clusterUser access profile request,
\* after a Get that found the cluster, with no ID set.
C29_Witness ==
    /\ kcPc = "done"
    /\ kcErr = "retrieving Access Profile"
    /\ kcCalls = <<<<"Get", "found">>, <<"GetAccessProfile clusterUser", "error">>>>
    /\ kcD.id = <<>>
    /\ kcD.set = {}

\* The data source at rest, for the specifications of the other parts.
ParkedKC ==
    /\ kcBeta = FALSE
    /\ kcCluster = <<>>
    /\ kcD = FreshData
    /\ kcPc = "parked"
    /\ kcCalls = <<>>
    /\ kcResp = NoKcResp
    /\ kcErr = ""

\* ------------------------------------------------------------------------
\* Specifications
\* ------------------------------------------------------------------------

\* Concurrent callers of the storage-account cache.
InitCacheSpec == InitCache /\ ParkedSB /\ ParkedFA /\ ParkedKC

SpecCache == InitCacheSpec /\ [][NextCache]_vars

\* The same callers under the scheduling the calls rely on: a goroutine that
\* can run does run, a remote call returns, and sync.RWMutex hands the lock
\* to a goroutine that keeps waiting for it (Lock is starvation-free), hence
\* strong fairness of the steps of a call that has started.
CacheFairness == \A p \in Procs : SF_vars(Run(p))

SpecCacheFair == InitCacheSpec /\ [][NextCache]_vars /\ CacheFairness

\* The handlers of one Service Bus resource, called by Terraform one at a time.
InitSBSpec == InitSB /\ InitCache /\ ParkedFA /\ ParkedKC

SpecSB == InitSBSpec /\ [][NextSB]_vars

\* The handlers of one function app on container, called by Terraform one at
\* a time, on any configuration a user can write.
InitFASpec == InitFA /\ InitCache /\ ParkedSB /\ ParkedKC

SpecFA == InitFASpec /\ [][NextFA]_vars

\* Reads of the Kubernetes cluster data source, of any cluster the service
\* can hold.
InitKCSpec == InitKC /\ InitCache /\ ParkedSB /\ ParkedFA

SpecKC == InitKCSpec /\ [][NextKC]_vars

====
